---- MODULE Spec2Model ----
(***************************************************************************)
(* The MCP demo server of main.go: main registers tools, resources and     *)
(* prompts on an mcp-go server and then serves tool calls over stdio.      *)
(* Every tool handler reads its arguments through the request accessors    *)
(* (RequireString, RequireFloat, GetString, GetFloat, GetBool) and returns *)
(* a pair: a CallToolResult and a Go error.                                *)
(*                                                                         *)
(* Conventions of the model                                                *)
(*  - a text built by fmt.Sprintf / fmt.Errorf is the record               *)
(*    [fmt, strs, nums, data]: the format string, its string operands, its *)
(*    numeric operands (a %.2f operand is the number in hundredths) and,   *)
(*    for a report, the list of entries it carries;                        *)
(*  - the Chinese message literals of the source are written in ASCII,     *)
(*    the original text is quoted in the comment next to each use;         *)
(*  - a JSON number is kept in tenths (155 is 15.5) together with its      *)
(*    shape ("int" for 10, "float" for 10.0); float64 arithmetic is exact  *)
(*    rational arithmetic on the bounded operands of the model.            *)
(***************************************************************************)
EXTENDS Integers, Sequences, FiniteSets, TLC

VARIABLES
    pc,         \* position of main(): the next statement to run
    tools,      \* the server's tool table: name -> handler
    resources,  \* registered resources and resource templates (URIs)
    prompts,    \* registered prompts (names)
    fs,         \* the file system the file tools act on: path -> content
    last,       \* the last tool call served and its response
    faultSeen,  \* history: some earlier call ended on an I/O fault
    before,     \* history: the file system the last call started from
    ctx,        \* the context of the last call: cancelled or not, and when
    listings,   \* history: what each tools/list request returned, in order
    inflight,   \* the calls being handled: request id -> handler invocation
    ia,         \* the intelligent assistant at work on one user query
    feishu      \* the feishu client: its cached token, the clock, its requests

vars == <<pc, tools, resources, prompts, fs, last, faultSeen, before, ctx,
          listings, inflight, ia, feishu>>

----------------------------------------------------------------------------
(* Argument values, as decoded from the JSON arguments object.             *)

Str(s) == [t |-> "string", s |-> s, n |-> 0]
IntNum(i) == [t |-> "int", s |-> "", n |-> 10 * i]
FloatNum(tenths) == [t |-> "float", s |-> "", n |-> tenths]
Bool(b) == [t |-> "bool", s |-> "", n |-> IF b THEN 1 ELSE 0]

Range(f) == {f[i] : i \in DOMAIN f}

Nil == "nil"

\* fmt.Sprintf(f, operands...) / fmt.Errorf(f, operands...)
Sprintf(f, ss, ns) == [fmt |-> f, strs |-> ss, nums |-> ns, data |-> <<>>]

\* json.MarshalIndent of a report that also carries a list of entries
Json(f, ss, ns, entries) ==
    [fmt |-> f, strs |-> ss, nums |-> ns, data |-> entries]

NoText == Sprintf("", <<>>, <<>>)

\* mcp.NewToolResultText / mcp.NewToolResultError
NewToolResultText(text) == [isError |-> FALSE, text |-> text]

NewToolResultError(text) == [isError |-> TRUE, text |-> text]

----------------------------------------------------------------------------
(* The request accessors of mcp.CallToolRequest, as the handlers use them. *)
(* Each returns [ok, s, n, err]; err is the text of the returned error.    *)

Got(s, n) == [ok |-> TRUE, s |-> s, n |-> n, err |-> NoText]

Missing(e) == [ok |-> FALSE, s |-> "", n |-> 0, err |-> e]

\* request.RequireString(key): the string under key, or an error naming key
RequireString(args, key) ==
    IF key \notin DOMAIN args
    THEN Missing(Sprintf("required argument %q not found", <<key>>, <<>>))
    ELSE IF args[key].t = "string"
         THEN Got(args[key].s, 0)
         ELSE Missing(Sprintf("argument %q is not a string", <<key>>, <<>>))

\* request.GetString(key, def): the string under key, else the default
GetString(args, key, def) ==
    IF key \in DOMAIN args /\ args[key].t = "string" THEN args[key].s ELSE def

\* the numeric conversion shared by RequireFloat and GetFloat: an integer and
\* a floating value both become the float64 of the same value
IsNumber(v) == v.t \in {"int", "float"}

ToFloat64(v) == v.n

\* mutant: only a value already of type float64 is accepted
RequireFloat_Float64Only(args, key) ==
    IF key \notin DOMAIN args
    THEN Missing(Sprintf("required argument %q not found", <<key>>, <<>>))
    ELSE IF args[key].t = "float"
         THEN Got("", ToFloat64(args[key]))
         ELSE Missing(Sprintf("argument %q is not a float64", <<key>>, <<>>))

\* request.RequireFloat(key): the number under key as float64, or an error
RequireFloat(args, key) ==
    IF key \notin DOMAIN args
    THEN Missing(Sprintf("required argument %q not found", <<key>>, <<>>))
    ELSE IF IsNumber(args[key])
         THEN Got("", ToFloat64(args[key]))
         ELSE Missing(Sprintf("argument %q is not a float64", <<key>>, <<>>))

\* mutant: GetFloat answers 0 for an absent key, whatever the default
GetFloat_ZeroDefault(args, key, def) ==
    IF key \in DOMAIN args /\ IsNumber(args[key])
    THEN ToFloat64(args[key])
    ELSE 0

\* request.GetFloat(key, def): the number under key as float64 (tenths), else
\* the default
GetFloat(args, key, def) ==
    IF key \in DOMAIN args /\ IsNumber(args[key])
    THEN ToFloat64(args[key])
    ELSE def

\* request.GetBool(key, def)
GetBool(args, key, def) ==
    IF key \in DOMAIN args /\ args[key].t = "bool" THEN args[key].n = 1 ELSE def

\* int(f): Go's conversion of a float64 to int truncates toward zero
TruncToInt(tenths) ==
    IF tenths >= 0 THEN tenths \div 10 ELSE -((-tenths) \div 10)

----------------------------------------------------------------------------
(* Rational arithmetic for the calculator: a value is [num, den], den > 0. *)

Rat(tenths) == [num |-> tenths, den |-> 10]

RatAdd(a, b) == [num |-> a.num * b.den + b.num * a.den, den |-> a.den * b.den]

RatSub(a, b) == [num |-> a.num * b.den - b.num * a.den, den |-> a.den * b.den]

RatMul(a, b) == [num |-> a.num * b.num, den |-> a.den * b.den]

\* a / b for b # 0, keeping the denominator positive
RatDiv(a, b) ==
    IF b.num > 0
    THEN [num |-> a.num * b.den, den |-> a.den * b.num]
    ELSE [num |-> -(a.num * b.den), den |-> a.den * (-b.num)]

\* mutant: the value is cut after the second decimal instead of rounded
Fmt2_Truncate(q) == (100 * q.num) \div q.den

\* the verb %.2f: the value rounded to the nearest hundredth (a tie goes to
\* the even neighbour), as an integer number of hundredths
Fmt2(q) ==
    LET a == 100 * q.num
        fl == a \div q.den
        r == a % q.den
    IN  IF 2 * r < q.den THEN fl
        ELSE IF 2 * r > q.den THEN fl + 1
        ELSE IF fl % 2 = 0 THEN fl ELSE fl + 1

----------------------------------------------------------------------------
(* The tool definitions of registerTools and registerAdvancedTools: for    *)
(* each tool its parameters in declaration order.                          *)

NoDefault == [t |-> "none", s |-> "", n |-> 0]

\* mcp.WithString / WithNumber / WithBoolean with Required, Enum, Default*
Param(name, kind, required, enum, default) ==
    [name |-> name, kind |-> kind, required |-> required,
     enum |-> enum, default |-> default]

calculatorTool ==
    << Param("operation", "string", TRUE,
             {"add", "subtract", "multiply", "divide"}, NoDefault),
       Param("x", "number", TRUE, {}, NoDefault),
       Param("y", "number", TRUE, {}, NoDefault) >>

fileReadTool == << Param("path", "string", TRUE, {}, NoDefault) >>

fileWriteTool ==
    << Param("path", "string", TRUE, {}, NoDefault),
       Param("content", "string", TRUE, {}, NoDefault) >>

httpTool ==
    << Param("url", "string", TRUE, {}, NoDefault),
       Param("method", "string", FALSE,
             {"GET", "POST", "PUT", "DELETE"}, Str("GET")),
       Param("body", "string", FALSE, {}, NoDefault) >>

systemInfoTool == << >>

timeTool ==
    << Param("format", "string", FALSE, {}, Str("2006-01-02 15:04:05")),
       Param("timezone", "string", FALSE, {}, Str("Local")) >>

webSearchTool ==
    << Param("query", "string", TRUE, {}, NoDefault),
       Param("engine", "string", FALSE,
             {"google", "bing", "duckduckgo"}, Str("google")),
       Param("results", "number", FALSE, {}, IntNum(10)) >>

dbQueryTool ==
    << Param("connection_string", "string", TRUE, {}, NoDefault),
       Param("driver", "string", TRUE,
             {"mysql", "postgres", "sqlite3"}, NoDefault),
       Param("query", "string", TRUE, {}, NoDefault) >>

fileAnalysisTool ==
    << Param("path", "string", TRUE, {}, NoDefault),
       Param("analysis_type", "string", FALSE,
             {"basic", "comprehensive", "security", "content"},
             Str("comprehensive")) >>

dirScanTool ==
    << Param("path", "string", TRUE, {}, NoDefault),
       Param("recursive", "boolean", FALSE, {}, Bool(TRUE)),
       Param("filter", "string", FALSE, {}, NoDefault),
       Param("max_depth", "number", FALSE, {}, FloatNum(50)) >>

networkMonitorTool ==
    << Param("target", "string", TRUE, {}, NoDefault),
       Param("action", "string", TRUE,
             {"ping", "port_scan", "trace_route"}, NoDefault),
       Param("ports", "string", FALSE, {}, NoDefault) >>

dataProcessTool ==
    << Param("data", "string", TRUE, {}, NoDefault),
       Param("format", "string", TRUE, {"json", "csv", "xml"}, NoDefault),
       Param("operation", "string", TRUE,
             {"analyze", "filter", "transform", "aggregate"}, NoDefault),
       Param("parameters", "string", FALSE, {}, NoDefault) >>

codeAnalysisTool ==
    << Param("path", "string", TRUE, {}, NoDefault),
       Param("language", "string", FALSE,
             {"go", "python", "javascript", "java", "cpp", "auto"}, NoDefault),
       Param("analysis_type", "string", FALSE,
             {"quality", "complexity", "security", "dependencies"},
             Str("quality")) >>

systemMonitorTool ==
    << Param("metric", "string", TRUE,
             {"cpu", "memory", "disk", "network", "processes", "all"},
             NoDefault),
       Param("duration", "number", FALSE, {}, FloatNum(50)) >>

\* the tools registered by registerTools, in order
BasicTools ==
    << "calculator", "read_file", "write_file", "http_request",
       "system_info", "current_time" >>

\* the tools registered by registerAdvancedTools, in order
AdvancedTools ==
    << "web_search", "database_query", "analyze_file", "scan_directory",
       "network_monitor", "process_data", "analyze_code", "system_monitor" >>

ToolNames == Range(BasicTools) \cup Range(AdvancedTools)

\* the definition each mcp.NewTool call builds
ToolParams(name) ==
    CASE name = "calculator" -> calculatorTool
      [] name = "read_file" -> fileReadTool
      [] name = "write_file" -> fileWriteTool
      [] name = "http_request" -> httpTool
      [] name = "system_info" -> systemInfoTool
      [] name = "current_time" -> timeTool
      [] name = "web_search" -> webSearchTool
      [] name = "database_query" -> dbQueryTool
      [] name = "analyze_file" -> fileAnalysisTool
      [] name = "scan_directory" -> dirScanTool
      [] name = "network_monitor" -> networkMonitorTool
      [] name = "process_data" -> dataProcessTool
      [] name = "analyze_code" -> codeAnalysisTool
      [] name = "system_monitor" -> systemMonitorTool

----------------------------------------------------------------------------
(* The handlers of the basic tools. A handler is handle(args, files, env): *)
(* the arguments of the call, the file system, and env, the outcome of the *)
(* outside world (network, database, permissions) during the call. It      *)
(* returns [result, err, fs]: the CallToolResult, the Go error and the     *)
(* file system it leaves.                                                  *)

Return(res, files) == [result |-> res, err |-> Nil, fs |-> files]

NoFile == "<no file>"

Paths == {"/tmp/a.txt"}

Contents == {"hello"}

\* "计算结果: %.2f %s %.2f = %.2f"
CalcText(x, operation, y, result) ==
    Sprintf("result: %.2f %s %.2f = %.2f", <<operation>>,
            <<Fmt2(Rat(x)), Fmt2(Rat(y)), Fmt2(result)>>)

\* mutant: divide does not test the divisor; float64 division by zero
\* yields an infinity, which is printed
handleCalculator_NoZeroCheck(args, files, env) ==
    LET operation == RequireString(args, "operation")
        x == RequireFloat(args, "x")
        y == RequireFloat(args, "y")
    IN  IF ~operation.ok THEN Return(NewToolResultError(operation.err), files)
        ELSE IF ~x.ok THEN Return(NewToolResultError(x.err), files)
        ELSE IF ~y.ok THEN Return(NewToolResultError(y.err), files)
        ELSE CASE operation.s = "add" ->
                    Return(NewToolResultText(CalcText(x.n, "add", y.n,
                               RatAdd(Rat(x.n), Rat(y.n)))), files)
               [] operation.s = "subtract" ->
                    Return(NewToolResultText(CalcText(x.n, "subtract", y.n,
                               RatSub(Rat(x.n), Rat(y.n)))), files)
               [] operation.s = "multiply" ->
                    Return(NewToolResultText(CalcText(x.n, "multiply", y.n,
                               RatMul(Rat(x.n), Rat(y.n)))), files)
               [] operation.s = "divide" ->
                    IF y.n = 0
                    THEN Return(NewToolResultText(
                             Sprintf("result: %.2f %s %.2f = +Inf",
                                     <<"divide">>,
                                     <<Fmt2(Rat(x.n)), Fmt2(Rat(y.n))>>)),
                             files)
                    ELSE Return(NewToolResultText(CalcText(x.n, "divide", y.n,
                               RatDiv(Rat(x.n), Rat(y.n)))), files)
               [] OTHER ->
                    Return(NewToolResultError(
                        Sprintf("unsupported operation", <<>>, <<>>)), files)

handleCalculator(args, files, env) ==
    LET operation == RequireString(args, "operation")
        x == RequireFloat(args, "x")
        y == RequireFloat(args, "y")
    IN  IF ~operation.ok THEN Return(NewToolResultError(operation.err), files)
        ELSE IF ~x.ok THEN Return(NewToolResultError(x.err), files)
        ELSE IF ~y.ok THEN Return(NewToolResultError(y.err), files)
        ELSE CASE operation.s = "add" ->
                    Return(NewToolResultText(CalcText(x.n, "add", y.n,
                               RatAdd(Rat(x.n), Rat(y.n)))), files)
               [] operation.s = "subtract" ->
                    Return(NewToolResultText(CalcText(x.n, "subtract", y.n,
                               RatSub(Rat(x.n), Rat(y.n)))), files)
               [] operation.s = "multiply" ->
                    Return(NewToolResultText(CalcText(x.n, "multiply", y.n,
                               RatMul(Rat(x.n), Rat(y.n)))), files)
               [] operation.s = "divide" ->
                    IF y.n = 0
                    \* "除数不能为零"
                    THEN Return(NewToolResultError(
                             Sprintf("divisor must not be zero", <<>>, <<>>)),
                             files)
                    ELSE Return(NewToolResultText(CalcText(x.n, "divide", y.n,
                               RatDiv(Rat(x.n), Rat(y.n)))), files)
               [] OTHER ->
                    \* "不支持的运算"
                    Return(NewToolResultError(
                        Sprintf("unsupported operation", <<>>, <<>>)), files)

\* os.ReadFile(path): the content, or the error of the failed read
ReadFile(files, path, env) ==
    IF path \notin DOMAIN files \/ files[path] = NoFile
    THEN [err |-> "no such file or directory", content |-> ""]
    ELSE IF env = "EACCES"
         THEN [err |-> "permission denied", content |-> ""]
         ELSE [err |-> Nil, content |-> files[path]]

\* mutant: the failed read is returned as a Go error, not as a tool result
handleReadFile_GoError(args, files, env) ==
    LET path == RequireString(args, "path")
        rd == ReadFile(files, path.s, env)
    IN  IF ~path.ok THEN Return(NewToolResultError(path.err), files)
        ELSE IF rd.err # Nil
             THEN [result |-> NewToolResultText(NoText), err |-> rd.err,
                   fs |-> files]
             ELSE Return(NewToolResultText(
                      Sprintf("file content (%s): %s",
                              <<path.s, rd.content>>, <<>>)), files)

\* mutant: the failed read is swallowed and an empty content is returned
handleReadFile_Swallow(args, files, env) ==
    LET path == RequireString(args, "path")
        rd == ReadFile(files, path.s, env)
    IN  IF ~path.ok THEN Return(NewToolResultError(path.err), files)
        ELSE Return(NewToolResultText(
                 Sprintf("file content (%s): %s",
                         <<path.s, rd.content>>, <<>>)), files)

handleReadFile(args, files, env) ==
    LET path == RequireString(args, "path")
        rd == ReadFile(files, path.s, env)
    IN  IF ~path.ok THEN Return(NewToolResultError(path.err), files)
        ELSE IF rd.err # Nil
             \* "读取文件失败: %v"
             THEN Return(NewToolResultError(
                      Sprintf("read file failed: %v", <<rd.err>>, <<>>)), files)
             \* "文件内容 (%s):\n%s"
             ELSE Return(NewToolResultText(
                      Sprintf("file content (%s): %s",
                              <<path.s, rd.content>>, <<>>)), files)

\* mutant: content is read with GetString and an absent content is written
\* as the empty text
handleWriteFile_ContentOptional(args, files, env) ==
    LET path == RequireString(args, "path")
        content == GetString(args, "content", "")
    IN  IF ~path.ok THEN Return(NewToolResultError(path.err), files)
        ELSE IF env = "mkdir failed"
             THEN Return(NewToolResultError(
                      Sprintf("create directory failed: %v",
                              <<"permission denied">>, <<>>)), files)
        ELSE IF env = "write failed"
             THEN Return(NewToolResultError(
                      Sprintf("write file failed: %v",
                              <<"permission denied">>, <<>>)), files)
             ELSE Return(NewToolResultText(
                      Sprintf("wrote file: %s", <<path.s>>, <<>>)),
                      [files EXCEPT ![path.s] = content])

handleWriteFile(args, files, env) ==
    LET path == RequireString(args, "path")
        content == RequireString(args, "content")
    IN  IF ~path.ok THEN Return(NewToolResultError(path.err), files)
        ELSE IF ~content.ok THEN Return(NewToolResultError(content.err), files)
        ELSE IF env = "mkdir failed"
             \* "创建目录失败: %v"
             THEN Return(NewToolResultError(
                      Sprintf("create directory failed: %v",
                              <<"permission denied">>, <<>>)), files)
        ELSE IF env = "write failed"
             \* "写入文件失败: %v"
             THEN Return(NewToolResultError(
                      Sprintf("write file failed: %v",
                              <<"permission denied">>, <<>>)), files)
             \* "成功写入文件: %s"
             ELSE Return(NewToolResultText(
                      Sprintf("wrote file: %s", <<path.s>>, <<>>)),
                      [files EXCEPT ![path.s] = content.s])

\* err.Error() of a failed client.Do or db.PingContext: the peer refused
\* the connection, or the context of the call was cancelled
NetError(env) ==
    IF env \in {"canceled", "ping canceled"} THEN "context canceled"
    ELSE "connection refused"

\* err.Error() of a failed db.QueryContext
QueryError(env) ==
    IF env = "query canceled" THEN "context canceled" ELSE "syntax error"

\* http.NewRequestWithContext rejects a method that is not a token
ValidMethod(method) == method # "GE T"

handleHTTPRequest(args, files, env) ==
    LET url == RequireString(args, "url")
        method == GetString(args, "method", "GET")
        \* the request carries the body when it is not empty
        body == GetString(args, "body", "")
    IN  IF ~url.ok THEN Return(NewToolResultError(url.err), files)
        ELSE IF ~ValidMethod(method)
             \* "创建请求失败: %v"
             THEN Return(NewToolResultError(
                      Sprintf("create request failed: %v",
                              <<"invalid method">>, <<>>)), files)
        ELSE IF env \in {"refused", "canceled"}
             \* "请求失败: %v"
             THEN Return(NewToolResultError(
                      Sprintf("request failed: %v",
                              <<NetError(env)>>, <<>>)), files)
        ELSE IF env = "read failed"
             \* "读取响应失败: %v"
             THEN Return(NewToolResultError(
                      Sprintf("read response failed: %v",
                              <<"unexpected EOF">>, <<>>)), files)
             \* "HTTP %s %s\n状态码: %d\n响应体:\n%s"
             ELSE Return(NewToolResultText(
                      Sprintf("HTTP %s %s status: %d body: %s",
                              <<method, url.s, "response body">>,
                              <<200>>)), files)

handleSystemInfo(args, files, env) ==
    \* "系统信息:\n%s"
    Return(NewToolResultText(Sprintf("system info: %s", <<>>, <<>>)), files)

\* time.LoadLocation knows the zone
KnownZone(timezone) == timezone \in {"UTC"}

handleCurrentTime(args, files, env) ==
    LET format == GetString(args, "format", "2006-01-02 15:04:05")
        timezone == GetString(args, "timezone", "Local")
    IN  IF timezone # "Local" /\ ~KnownZone(timezone)
        \* "无效时区: %v"
        THEN Return(NewToolResultError(
                 Sprintf("invalid timezone: %v", <<"unknown time zone">>, <<>>)),
                 files)
        \* "当前时间 (%s): %s", the time printed in the given format
        ELSE Return(NewToolResultText(
                 Sprintf("current time (%s): %s", <<timezone, format>>, <<>>)),
                 files)

----------------------------------------------------------------------------
(* The handlers of the advanced tools.                                     *)

\* the number of results the search engine answers with, when it answers
\* with a JSON array
SearchHits == 25

Min(a, b) == IF a < b THEN a ELSE b

\* the search URL the handler builds: the engine's address, the escaped
\* query and the count asked for (num for google, count for bing, none
\* for duckduckgo)
searchURL(engine, query, limit) ==
    [engine |-> engine, q |-> query,
     count |-> IF engine \in {"google", "bing"} THEN <<limit>> ELSE << >>]

handleWebSearch(args, files, env) ==
    LET query == RequireString(args, "query")
        engine == GetString(args, "engine", "google")
        limit == TruncToInt(GetFloat(args, "limit", 100))
        \* the loop over results stops at i >= limit
        shown == IF limit <= 0 THEN 0 ELSE Min(SearchHits, limit)
    IN  IF ~query.ok THEN Return(NewToolResultError(query.err), files)
        ELSE IF engine \notin {"google", "bing", "duckduckgo"}
             \* "不支持的搜索引擎"
             THEN Return(NewToolResultError(
                      Sprintf("unsupported search engine", <<>>, <<>>)), files)
        ELSE IF env \in {"refused", "canceled"}
             \* "搜索请求失败: %v"
             THEN Return(NewToolResultError(
                      Sprintf("search request failed: %v",
                              <<NetError(env)>>, <<>>)), files)
        ELSE IF env = "read failed"
             \* "读取搜索结果失败: %v"
             THEN Return(NewToolResultError(
                      Sprintf("read search result failed: %v",
                              <<"unexpected EOF">>, <<>>)), files)
        ELSE IF env # "array"
             \* the body is not a JSON array: the raw body is returned,
             \* "搜索结果 (%s):\n%s"
             THEN Return(NewToolResultText(
                      Sprintf("search results (%s): %s",
                              <<engine, "raw body">>, <<>>)), files)
             \* "搜索结果 - \"%s\" (%s引擎):" and one entry per result shown
             ELSE Return(NewToolResultText(
                      Sprintf("search results - %q (%s engine)",
                              <<query.s, engine>>, <<shown>>)), files)

\* sql.Open knows the driver: one of the drivers linked into the build
DriverNames == {"mysql", "postgres", "sqlite3"}

\* mutant: the handler reads query before connection_string and driver
handleDatabaseQuery_QueryFirst(args, files, env) ==
    LET connectionString == RequireString(args, "connection_string")
        driver == RequireString(args, "driver")
        query == RequireString(args, "query")
    IN  IF ~query.ok THEN Return(NewToolResultError(query.err), files)
        ELSE IF ~connectionString.ok
        THEN Return(NewToolResultError(connectionString.err), files)
        ELSE IF ~driver.ok THEN Return(NewToolResultError(driver.err), files)
        ELSE IF driver.s \notin DriverNames \/ env = "unknown driver"
             \* "数据库连接失败: %v"
             THEN Return(NewToolResultError(
                      Sprintf("database connection failed: %v",
                              <<"unknown driver", driver.s>>, <<>>)), files)
        ELSE IF env \in {"ping failed", "ping canceled"}
             \* "数据库连接测试失败: %v"
             THEN Return(NewToolResultError(
                      Sprintf("database ping failed: %v",
                              <<NetError(env)>>, <<>>)), files)
        ELSE IF env \in {"query failed", "query canceled"}
             \* "查询执行失败: %v"
             THEN Return(NewToolResultError(
                      Sprintf("query failed: %v", <<QueryError(env)>>, <<>>)),
                      files)
        ELSE IF env = "columns failed"
             \* "获取列信息失败: %v"
             THEN Return(NewToolResultError(
                      Sprintf("columns failed: %v", <<"rows are closed">>, <<>>)),
                      files)
        ELSE IF env = "scan failed"
             \* "扫描行数据失败: %v"
             THEN Return(NewToolResultError(
                      Sprintf("scan row failed: %v", <<"scan error">>, <<>>)),
                      files)
             \* "数据库查询结果:\n%s"
             ELSE Return(NewToolResultText(
                      Sprintf("database query result: %s",
                              <<query.s, driver.s>>, <<>>)), files)

handleDatabaseQuery(args, files, env) ==
    LET connectionString == RequireString(args, "connection_string")
        driver == RequireString(args, "driver")
        query == RequireString(args, "query")
    IN  IF ~connectionString.ok
        THEN Return(NewToolResultError(connectionString.err), files)
        ELSE IF ~driver.ok THEN Return(NewToolResultError(driver.err), files)
        ELSE IF ~query.ok THEN Return(NewToolResultError(query.err), files)
        ELSE IF driver.s \notin DriverNames \/ env = "unknown driver"
             \* "数据库连接失败: %v"
             THEN Return(NewToolResultError(
                      Sprintf("database connection failed: %v",
                              <<"unknown driver", driver.s>>, <<>>)), files)
        ELSE IF env \in {"ping failed", "ping canceled"}
             \* "数据库连接测试失败: %v"
             THEN Return(NewToolResultError(
                      Sprintf("database ping failed: %v",
                              <<NetError(env)>>, <<>>)), files)
        ELSE IF env \in {"query failed", "query canceled"}
             \* "查询执行失败: %v"
             THEN Return(NewToolResultError(
                      Sprintf("query failed: %v", <<QueryError(env)>>, <<>>)),
                      files)
        ELSE IF env = "columns failed"
             \* "获取列信息失败: %v"
             THEN Return(NewToolResultError(
                      Sprintf("columns failed: %v", <<"rows are closed">>, <<>>)),
                      files)
        ELSE IF env = "scan failed"
             \* "扫描行数据失败: %v"
             THEN Return(NewToolResultError(
                      Sprintf("scan row failed: %v", <<"scan error">>, <<>>)),
                      files)
             \* "数据库查询结果:\n%s"
             ELSE Return(NewToolResultText(
                      Sprintf("database query result: %s",
                              <<query.s, driver.s>>, <<>>)), files)

\* the sections handleFileAnalysis adds to the report for an analysis type
AnalysisSections(analysisType) ==
    (IF analysisType \in {"basic", "comprehensive"}
     THEN <<"extension", "directory", "md5_hash">> ELSE <<>>)
    \o (IF analysisType \in {"content", "comprehensive"}
        THEN <<"content_analysis">> ELSE <<>>)
    \o (IF analysisType \in {"security", "comprehensive"}
        THEN <<"security_analysis">> ELSE <<>>)
    \o (IF analysisType = "comprehensive"
        THEN <<"readable", "writable", "executable", "mime_type">>
        ELSE <<>>)

handleFileAnalysis(args, files, env) ==
    LET path == RequireString(args, "path")
        analysisType == GetString(args, "analysis_type", "comprehensive")
    IN  IF ~path.ok THEN Return(NewToolResultError(path.err), files)
        ELSE IF path.s \notin DOMAIN files \/ files[path.s] = NoFile
             \* os.Stat fails, "获取文件信息失败: %v"
             THEN Return(NewToolResultError(
                      Sprintf("stat file failed: %v",
                              <<"no such file or directory">>, <<>>)), files)
             \* "文件分析报告 (%s):\n%s"
             ELSE Return(NewToolResultText(
                      Sprintf("file analysis report (%s): %s",
                              <<analysisType, path.s>>
                                  \o AnalysisSections(analysisType),
                              <<>>)), files)

\* The directory tree under "/data", in the order filepath.Walk visits it
\* (lexical, a directory before its entries). rel is the path relative to
\* the scanned root, as a sequence of names; the root itself is <<>>.
Entry(rel, name, isDir, size) ==
    [rel |-> rel, name |-> name, isDir |-> isDir, size |-> size]

ScanTree ==
    << Entry(<<>>, "data", TRUE, 4),
       Entry(<<"a">>, "a", TRUE, 4),
       Entry(<<"a", "b">>, "b", TRUE, 4),
       Entry(<<"a", "b", "c.txt">>, "c.txt", FALSE, 3),
       Entry(<<"a", "n.md">>, "n.md", FALSE, 2),
       Entry(<<"f.txt">>, "f.txt", FALSE, 1) >>

\* strings.Count(relPath, separator): "." and "a" hold none, "a/b" holds one
Depth(rel) == IF Len(rel) = 0 THEN 0 ELSE Len(rel) - 1

\* regexp.Compile accepts the pattern
ValidRegexp(pattern) == pattern # "("

\* filter.MatchString(name)
MatchString(pattern, name) ==
    IF pattern = "txt$" THEN name \in {"c.txt", "f.txt"} ELSE FALSE

\* the callback of filepath.Walk reports the entry: it is within the depth
\* limit (deeper directories are skipped whole) and passes the filter
Reported(e, maxDepth, filterPattern) ==
    /\ Depth(e.rel) <= maxDepth
    /\ filterPattern = "" \/ MatchString(filterPattern, e.name)

RECURSIVE SumSizes(_)
SumSizes(entries) ==
    IF entries = <<>> THEN 0
    ELSE Head(entries).size + SumSizes(Tail(entries))

\* mutant: every reported entry is appended to files, directories too
IsFile_All(e) == TRUE

IsFile(e) == ~e.isDir

IsDir(e) == e.isDir

handleDirectoryScan(args, files, env) ==
    LET path == RequireString(args, "path")
        recursive == GetBool(args, "recursive", TRUE)
        filterPattern == GetString(args, "filter", "")
        maxDepth == TruncToInt(GetFloat(args, "max_depth", 50))
        \* a root that cannot be read reaches the callback with an error,
        \* which the callback ignores: nothing is visited
        walked == IF path.s = "/data" THEN ScanTree ELSE <<>>
        seen == SelectSeq(walked,
                          LAMBDA e : Reported(e, maxDepth, filterPattern))
        fileList == SelectSeq(seen, IsFile)
        directories == SelectSeq(seen, IsDir)
    IN  IF ~path.ok THEN Return(NewToolResultError(path.err), files)
        ELSE IF filterPattern # "" /\ ~ValidRegexp(filterPattern)
             \* "无效的过滤器正则表达式: %v"
             THEN Return(NewToolResultError(
                      Sprintf("invalid filter regexp: %v",
                              <<"missing closing )">>, <<>>)), files)
             \* "目录扫描结果:\n%s"
             ELSE Return(NewToolResultText(
                      Json("directory scan result: %s",
                           <<path.s, IF recursive THEN "true" ELSE "false",
                             filterPattern>>,
                           <<maxDepth, Len(fileList), Len(directories),
                             SumSizes(fileList)>>,
                           <<fileList, directories>>)), files)

\* parsePortList(ports): the ports a list such as "80,443" names
parsePortList(ports) == IF ports = "80,443" THEN <<80, 443>> ELSE <<>>

handleNetworkMonitor(args, files, env) ==
    LET target == RequireString(args, "target")
        action == RequireString(args, "action")
        ports == GetString(args, "ports", "")
    IN  IF ~target.ok THEN Return(NewToolResultError(target.err), files)
        ELSE IF ~action.ok THEN Return(NewToolResultError(action.err), files)
        ELSE CASE action.s = "ping" ->
                    \* a refused connection is reported inside a success
                    Return(NewToolResultText(
                        Sprintf("network monitor result: %s",
                                <<target.s, "ping",
                                  IF env = "open" THEN "reachable"
                                  ELSE "unreachable">>, <<>>)), files)
               [] action.s = "port_scan" ->
                    IF ports = ""
                    \* "端口扫描需要指定端口"
                    THEN Return(NewToolResultError(
                             Sprintf("port scan needs ports", <<>>, <<>>)),
                             files)
                    ELSE Return(NewToolResultText(
                             Sprintf("network monitor result: %s",
                                     <<target.s, "port_scan",
                                       IF env = "open" THEN "open"
                                       ELSE "closed">>,
                                     parsePortList(ports))), files)
               [] action.s = "trace_route" ->
                    Return(NewToolResultText(
                        Sprintf("network monitor result: %s",
                                <<target.s, "trace_route", "gateway">>,
                                <<1, 2>>)), files)
               [] OTHER ->
                    \* "不支持的网络监控动作"
                    Return(NewToolResultError(
                        Sprintf("unsupported network action", <<>>, <<>>)),
                        files)

\* json.Unmarshal of the text into a map / into any value succeeds
ValidJSONObject(text) == text = "{}"

ValidJSON(text) == text \in {"{}", "[1,2]"}

\* json.Unmarshal(data, &parsedData): the value the text denotes
ParseJSON(text) == IF text = "[1,2]" THEN <<1, 2>> ELSE << >>

\* the CSV reading of the handler: the first line gives the headers, every
\* later non-blank line one row, a map from header to trimmed value. A text
\* of a single line has headers and no rows.
ParseCSV(text) ==
    IF text = "a,b\n1,2" THEN << [a |-> "1", b |-> "2"] >> ELSE << >>

\* analyzeData(parsedData): what is known of it is that it reports on the
\* parsed data
analyzeData(parsedData) == << [count |-> Len(parsedData)] >>

handleDataProcess(args, files, env) ==
    LET data == RequireString(args, "data")
        format == RequireString(args, "format")
        operation == RequireString(args, "operation")
        parameters == GetString(args, "parameters", "{}")
        parsedData == IF format.s = "json" THEN ParseJSON(data.s)
                      ELSE ParseCSV(data.s)
        out(key, value) ==
            \* "数据处理结果:\n%s"
            Return(NewToolResultText(
                Json("data process result: %s",
                     <<format.s, operation.s, key>>, <<>>, value)), files)
    IN  IF ~data.ok THEN Return(NewToolResultError(data.err), files)
        ELSE IF ~format.ok THEN Return(NewToolResultError(format.err), files)
        ELSE IF ~operation.ok
             THEN Return(NewToolResultError(operation.err), files)
        ELSE IF ~ValidJSONObject(parameters)
             \* "参数解析失败: %v"
             THEN Return(NewToolResultError(
                      Sprintf("parameters parse failed: %v",
                              <<"invalid character">>, <<>>)), files)
        ELSE IF format.s = "json" /\ ~ValidJSON(data.s)
             \* "JSON解析失败: %v"
             THEN Return(NewToolResultError(
                      Sprintf("JSON parse failed: %v",
                              <<"invalid character">>, <<>>)), files)
        ELSE IF format.s \notin {"json", "csv"}
             \* "不支持的数据格式"
             THEN Return(NewToolResultError(
                      Sprintf("unsupported data format", <<>>, <<>>)), files)
        ELSE CASE operation.s = "analyze" ->
                    out("analysis", analyzeData(parsedData))
               [] operation.s = "filter" -> out("filtered_data", parsedData)
               [] operation.s = "transform" ->
                    out("transformed_data", parsedData)
               [] operation.s = "aggregate" ->
                    out("aggregated_data", parsedData)
               [] OTHER ->
                    \* "不支持的数据操作"
                    Return(NewToolResultError(
                        Sprintf("unsupported data operation", <<>>, <<>>)),
                        files)

----------------------------------------------------------------------------
(* handleCodeAnalysis and handleSystemMonitor are registered by            *)
(* registerAdvancedTools but defined in a file that is not part of the     *)
(* sources at hand: they follow the specification's validation algorithm   *)
(* (section 4.1) and then succeed or fail as the outside world decides.    *)

KindOf(v) ==
    CASE v.t = "string" -> "string"
      [] v.t \in {"int", "float"} -> "number"
      [] v.t = "bool" -> "boolean"
      [] OTHER -> "none"

\* the first validation error over the parameters in declaration order
RECURSIVE Validate(_, _)
Validate(params, args) ==
    IF params = <<>> THEN Got("", 0)
    ELSE LET p == Head(params) IN
         IF p.name \notin DOMAIN args
         THEN IF p.required
              THEN Missing(Sprintf("required argument %q not found",
                                   <<p.name>>, <<>>))
              ELSE Validate(Tail(params), args)
         ELSE IF KindOf(args[p.name]) # p.kind
              THEN Missing(Sprintf("argument %q has the wrong type",
                                   <<p.name>>, <<>>))
         ELSE IF p.enum # {} /\ args[p.name].s \notin p.enum
              THEN Missing(Sprintf("argument %q is not an allowed value",
                                   <<p.name>>, <<>>))
              ELSE Validate(Tail(params), args)

handleCodeAnalysis(args, files, env) ==
    LET v == Validate(codeAnalysisTool, args)
        path == GetString(args, "path", "")
        analysisType == GetString(args, "analysis_type", "quality")
    IN  IF ~v.ok THEN Return(NewToolResultError(v.err), files)
        ELSE IF env = "failed"
             THEN Return(NewToolResultError(
                      Sprintf("code analysis failed: %v",
                              <<"no such file or directory">>, <<>>)), files)
             ELSE Return(NewToolResultText(
                      Sprintf("code analysis result: %s",
                              <<path, analysisType>>, <<>>)), files)

handleSystemMonitor(args, files, env) ==
    LET v == Validate(systemMonitorTool, args)
        metric == GetString(args, "metric", "")
        duration == GetFloat(args, "duration", 50)
    IN  IF ~v.ok THEN Return(NewToolResultError(v.err), files)
        ELSE IF env = "failed"
             THEN Return(NewToolResultError(
                      Sprintf("system monitor failed: %v",
                              <<"not supported">>, <<>>)), files)
             ELSE Return(NewToolResultText(
                      Sprintf("system monitor result: %s",
                              <<metric>>, <<duration>>)), files)

----------------------------------------------------------------------------
(* Registration and dispatch.                                              *)

\* the handler each s.AddTool call binds to the tool
HandlerOf(name) ==
    CASE name = "calculator" -> "handleCalculator"
      [] name = "read_file" -> "handleReadFile"
      [] name = "write_file" -> "handleWriteFile"
      [] name = "http_request" -> "handleHTTPRequest"
      [] name = "system_info" -> "handleSystemInfo"
      [] name = "current_time" -> "handleCurrentTime"
      [] name = "web_search" -> "handleWebSearch"
      [] name = "database_query" -> "handleDatabaseQuery"
      [] name = "analyze_file" -> "handleFileAnalysis"
      [] name = "scan_directory" -> "handleDirectoryScan"
      [] name = "network_monitor" -> "handleNetworkMonitor"
      [] name = "process_data" -> "handleDataProcess"
      [] name = "analyze_code" -> "handleCodeAnalysis"
      [] name = "system_monitor" -> "handleSystemMonitor"

\* s.AddTool(tool, handler): the table holds the handler under the tool's name
AddTool(table, name, handler) ==
    [n \in DOMAIN table \cup {name} |->
        IF n = name THEN handler ELSE table[n]]

RECURSIVE AddAll(_, _)
AddAll(table, names) ==
    IF names = <<>> THEN table
    ELSE AddAll(AddTool(table, Head(names), HandlerOf(Head(names))),
                Tail(names))

\* the call of the handler bound to a tool
Run(handler, args, files, env) ==
    CASE handler = "handleCalculator" -> handleCalculator(args, files, env)
      [] handler = "handleReadFile" -> handleReadFile(args, files, env)
      [] handler = "handleWriteFile" -> handleWriteFile(args, files, env)
      [] handler = "handleHTTPRequest" -> handleHTTPRequest(args, files, env)
      [] handler = "handleSystemInfo" -> handleSystemInfo(args, files, env)
      [] handler = "handleCurrentTime" -> handleCurrentTime(args, files, env)
      [] handler = "handleWebSearch" -> handleWebSearch(args, files, env)
      [] handler = "handleDatabaseQuery" ->
             handleDatabaseQuery(args, files, env)
      [] handler = "handleFileAnalysis" ->
             handleFileAnalysis(args, files, env)
      [] handler = "handleDirectoryScan" ->
             handleDirectoryScan(args, files, env)
      [] handler = "handleNetworkMonitor" ->
             handleNetworkMonitor(args, files, env)
      [] handler = "handleDataProcess" -> handleDataProcess(args, files, env)
      [] handler = "handleCodeAnalysis" ->
             handleCodeAnalysis(args, files, env)
      [] handler = "handleSystemMonitor" ->
             handleSystemMonitor(args, files, env)

StatusResources == {"server://status", "file://{path}", "config://{key}"}

PromptNames == {"code_review", "data_analysis"}

----------------------------------------------------------------------------
(* The calls a client makes: for each tool, the values each argument key   *)
(* takes when it is present (a key may also be absent), and the outcomes   *)
(* of the outside world during the call.                                   *)

ArgValues(name) ==
    CASE name = "calculator" ->
           << <<"operation", {Str("add"), Str("subtract"), Str("multiply"),
                              Str("divide"), Str("power")}>>,
              <<"x", {IntNum(10), FloatNum(100), FloatNum(155)}>>,
              <<"y", {IntNum(0), FloatNum(0), FloatNum(243)}>> >>
      [] name = "read_file" ->
           << <<"path", {Str("/tmp/a.txt"), Str("/tmp/b.txt"), IntNum(1)}>> >>
      [] name = "write_file" ->
           << <<"path", {Str("/tmp/a.txt")}>>,
              <<"content", {Str("hello")}>> >>
      [] name = "http_request" ->
           << <<"url", {Str("http://host/")}>>,
              <<"method", {Str("GET"), Str("PATCH"), Str("GE T")}>>,
              <<"body", {Str("payload")}>> >>
      [] name = "system_info" -> << >>
      [] name = "current_time" ->
           << <<"format", {Str("2006-01-02 15:04:05"), Str("15:04")}>>,
              <<"timezone", {Str("Local"), Str("UTC"), Str("Mars/Phobos")}>> >>
      [] name = "web_search" ->
           << <<"query", {Str("golang")}>>,
              <<"engine", {Str("google"), Str("yahoo")}>>,
              <<"results", {IntNum(5)}>>,
              <<"limit", {IntNum(1), IntNum(25)}>> >>
      [] name = "database_query" ->
           << <<"connection_string", {Str("user@/db")}>>,
              <<"driver", {Str("mysql"), Str("oracle")}>>,
              <<"query", {Str("SELECT 1"), Str("DELETE FROM t")}>>,
              <<"query_type", {Str("raw")}>> >>
      [] name = "analyze_file" ->
           << <<"path", {Str("/tmp/a.txt"), Str("/tmp/b.txt")}>>,
              <<"analysis_type", {Str("basic"), Str("comprehensive"),
                                  Str("security"), Str("content"),
                                  Str("deep")}>> >>
      [] name = "scan_directory" ->
           << <<"path", {Str("/data"), Str("/missing")}>>,
              <<"recursive", {Bool(FALSE)}>>,
              <<"filter", {Str("txt$"), Str("(")}>>,
              <<"max_depth", {IntNum(1), FloatNum(10)}>> >>
      [] name = "network_monitor" ->
           << <<"target", {Str("host")}>>,
              <<"action", {Str("ping"), Str("port_scan"), Str("trace_route"),
                           Str("sniff")}>>,
              <<"ports", {Str("80,443")}>> >>
      [] name = "process_data" ->
           << <<"data", {Str("[1,2]"), Str("a,b\n1,2"), Str("<a/>")}>>,
              <<"format", {Str("json"), Str("csv"), Str("xml"), Str("yaml")}>>,
              <<"operation", {Str("analyze"), Str("filter"), Str("aggregate"),
                              Str("sort")}>>,
              <<"parameters", {Str("not json")}>> >>
      [] name = "analyze_code" ->
           << <<"path", {Str("/tmp/a.txt")}>>,
              <<"analysis_type", {Str("quality")}>> >>
      [] name = "system_monitor" ->
           << <<"metric", {Str("cpu")}>>,
              <<"duration", {IntNum(5), FloatNum(50)}>> >>

EnvOf(name) ==
    CASE name = "read_file" -> {"ok", "EACCES"}
      [] name = "write_file" -> {"ok", "mkdir failed", "write failed"}
      [] name = "http_request" -> {"200", "refused", "read failed"}
      [] name = "web_search" -> {"refused", "read failed", "object", "array"}
      [] name = "database_query" ->
           {"ok", "unknown driver", "ping failed", "query failed",
            "columns failed", "scan failed"}
      [] name = "network_monitor" -> {"open", "closed"}
      [] name = "analyze_code" -> {"ok", "failed"}
      [] name = "system_monitor" -> {"ok", "failed"}
      [] OTHER -> {"ok"}

EmptyArgs == [k \in {} |-> Str("")]

With(args, key, value) ==
    [k \in DOMAIN args \cup {key} |-> IF k = key THEN value ELSE args[k]]

\* every argument map over the keys: each key absent or one of its values
RECURSIVE ArgMaps(_)
ArgMaps(keys) ==
    IF keys = <<>> THEN {EmptyArgs}
    ELSE LET rest == ArgMaps(Tail(keys))
             key == Head(keys)[1]
         IN  rest \cup {With(a, key, v) : a \in rest, v \in Head(keys)[2]}

\* a call that lacks a required argument is answered before the handler
\* turns to the outside world: one outcome stands for all of them
HasRequired(name, args) ==
    \A i \in DOMAIN ToolParams(name) :
        ToolParams(name)[i].required => ToolParams(name)[i].name \in DOMAIN args

EnvFor(name, args) ==
    IF HasRequired(name, args) THEN EnvOf(name)
    ELSE {CHOOSE e \in EnvOf(name) : TRUE}

Calls ==
    UNION { UNION { {[tool |-> name, args |-> a, env |-> e] :
                        e \in EnvFor(name, a)} :
                    a \in ArgMaps(ArgValues(name)) } :
            name \in ToolNames }

----------------------------------------------------------------------------
(* The server: main() and the calls it serves.                             *)

NoResult == NewToolResultText(NoText)

NoCall ==
    [tool |-> "", args |-> EmptyArgs, env |-> "", result |-> NoResult,
     err |-> Nil]

\* a context that is not cancelled
Live == [cancelled |-> FALSE, at |-> 0, started |-> 0]

\* the ids of the requests a client may have in flight at once
MaxInFlight == 2

RequestIds == 1 .. MaxInFlight

NoRequest == [tool |-> "", args |-> EmptyArgs, env |-> ""]

\* a request slot with no handler at work. done tells how the call that
\* completed last, if it was this slot's, ran: "alone" or "overlapped"
Idle == [busy |-> FALSE, request |-> NoRequest, args |-> EmptyArgs,
         done |-> ""]

HasStr(c, key) == key \in DOMAIN c.args /\ c.args[key].t = "string"

\* the handler of call c reached the outside world and the outside world
\* failed it: a failed file read, a failed write, a failed HTTP exchange
Faulted(c, files) ==
    \/ /\ c.tool = "read_file"
       /\ HasStr(c, "path")
       /\ \/ c.args["path"].s \notin DOMAIN files
          \/ files[c.args["path"].s] = NoFile
          \/ c.env = "EACCES"
    \/ /\ c.tool = "write_file"
       /\ HasStr(c, "path") /\ HasStr(c, "content")
       /\ c.env \in {"mkdir failed", "write failed"}
    \/ /\ c.tool = "http_request"
       /\ HasStr(c, "url")
       /\ ValidMethod(GetString(c.args, "method", "GET"))
       /\ c.env \in {"refused", "read failed"}

----------------------------------------------------------------------------
(* The intelligent assistant of the LLM integration demo. It analyses a    *)
(* user query, calls the MCP tools the analysis selects and asks the LLM   *)
(* for the final answer.                                                   *)
(*                                                                         *)
(* A Go string is the tuple of its pieces, so that strings.Contains is     *)
(* membership of a piece and concatenation is \o. The Chinese keywords and *)
(* texts are written as English glosses; a number in a tool argument is    *)
(* written as its JSON literal.                                            *)

\* strings.Contains(s, keyword)
Contains(s, keyword) == \E i \in DOMAIN s : s[i] = keyword

\* strings.ToLower(s)
ToLower(s) ==
    [i \in DOMAIN s |->
        CASE s[i] = "COUNT" -> "count"
          [] s[i] = "SUM" -> "sum"
          [] OTHER -> s[i]]

\* the decimal numeral of a position in a list, as %d prints it
Numeral(i) == <<"1", "2", "3">>[i]

\* a Go map without entries
EmptyMap == [k \in {} |-> << >>]

\* the user queries put to the assistant
Queries ==
    { <<"hello">>,
      <<"today", "news">>,
      <<"COUNT">>,
      <<"statistics", "user", "plus">>,
      <<"latest", "active", "user", "-">>,
      <<"compute">> }

\* needsWebSearch: the query holds a keyword of dates, times or news
needsWebSearch(query) ==
    \E keyword \in {"today", "now", "current", "this day", "this moment",
                    "at present", "which day", "which month", "what time",
                    "which weekday", "what weekday", "date", "time",
                    "latest", "news", "trends", "release", "update",
                    "recent", "2024", "2025", "real-time", "right now"} :
        Contains(query, keyword)

\* needsDatabase: the query holds a keyword of users and data
needsDatabase(query) ==
    \E keyword \in {"user", "database", "query", "statistics", "data",
                    "record", "table", "field", "count", "sum"} :
        Contains(query, keyword)

\* needsCalculation: the query holds a keyword of arithmetic
needsCalculation(query) ==
    \E keyword \in {"compute", "plus", "minus", "times", "divided by", "+",
                    "-", "*", "/", "equals", "result", "math", "reckon",
                    "total", "average"} :
        Contains(query, keyword)

\* buildDatabaseQuery: the structured query the assistant asks for
buildDatabaseQuery(query) ==
    IF Contains(query, "statistics") \/ Contains(query, "quantity")
    THEN [query_type |-> <<"structured">>, query |-> <<"select">>,
          table_name |-> <<"users">>,
          fields |-> <<"status, COUNT(*) as count">>,
          group_by |-> <<"status">>]
    ELSE IF Contains(query, "active")
    THEN [query_type |-> <<"structured">>, query |-> <<"select">>,
          table_name |-> <<"users">>, fields |-> <<"*">>,
          where_conditions |-> <<"status=active">>, limit |-> <<"10">>]
    ELSE [query_type |-> <<"structured">>, query |-> <<"select">>,
          table_name |-> <<"users">>, limit |-> <<"5">>]

\* parseCalculation: the sample calculation the query stands for
parseCalculation(query) ==
    IF Contains(query, "plus") \/ Contains(query, "+")
    THEN [operation |-> <<"add">>, x |-> <<"10.5">>, y |-> <<"20.3">>]
    ELSE IF Contains(query, "minus") \/ Contains(query, "-")
    THEN [operation |-> <<"subtract">>, x |-> <<"100">>, y |-> <<"25">>]
    ELSE [operation |-> <<"multiply">>, x |-> <<"12">>, y |-> <<"8">>]

ToolCall(name, args) == [Name |-> name, Args |-> args]

\* mutant: the tools needed are called last first
Selected_Reversed(calls, needed) ==
    LET kept == SelectSeq(calls, LAMBDA call : call.Name \in needed)
    IN  [i \in DOMAIN kept |-> kept[Len(kept) + 1 - i]]

\* the calls of a list of tools, those not needed left out
Selected(calls, needed) ==
    SelectSeq(calls, LAMBDA call : call.Name \in needed)

\* analyzeQueryForToolsFallback: keyword matching on the lower-cased query
analyzeQueryForToolsFallback(query) ==
    LET lower == ToLower(query)
        needed == {name \in {"web_search", "database_query", "calculator"} :
                      \/ name = "web_search" /\ needsWebSearch(lower)
                      \/ name = "database_query" /\ needsDatabase(lower)
                      \/ name = "calculator" /\ needsCalculation(lower)}
    IN  Selected(<<ToolCall("web_search",
                            [query |-> lower, limit |-> <<"5">>]),
                   ToolCall("database_query", buildDatabaseQuery(lower)),
                   ToolCall("calculator", parseCalculation(lower))>>,
                 needed)

\* ToolAnalysis: what the LLM says the query needs
ToolAnalysis(web, webQuery, db, dbQuery, calc, calcArgs) ==
    [NeedsWebSearch |-> web, WebSearchQuery |-> webQuery,
     NeedsDatabase |-> db, DatabaseQuery |-> dbQuery,
     NeedsCalculation |-> calc, CalculationArgs |-> calcArgs]

\* fillToolParameters: the parameters the LLM left out, made from the query
fillToolParameters(analysis, query) ==
    [analysis EXCEPT
        !.WebSearchQuery =
            IF analysis.NeedsWebSearch /\ @ = << >> THEN query ELSE @,
        !.DatabaseQuery =
            IF analysis.NeedsDatabase /\ DOMAIN @ = {}
            THEN buildDatabaseQuery(query) ELSE @,
        !.CalculationArgs =
            IF analysis.NeedsCalculation /\ DOMAIN @ = {}
            THEN parseCalculation(query) ELSE @]

\* the replies of the LLM endpoint to the analysis request: the error of
\* client.Do, the status, whether reading the body fails, and what the
\* message content holds between its first "{" and its last "}"
AnalysisReply(err, status, readErr, json, analysis) ==
    [err |-> err, status |-> status, readErr |-> readErr, json |-> json,
     analysis |-> analysis]

NoAnalysis == ToolAnalysis(FALSE, << >>, FALSE, EmptyMap, FALSE, EmptyMap)

AnalysisReplies ==
    { AnalysisReply("connection refused", 0, FALSE, "none", NoAnalysis),
      AnalysisReply("context deadline exceeded", 0, FALSE, "none",
                    NoAnalysis),
      AnalysisReply("", 500, FALSE, "none", NoAnalysis),
      AnalysisReply("", 200, TRUE, "none", NoAnalysis),
      AnalysisReply("", 200, FALSE, "none", NoAnalysis),
      AnalysisReply("", 200, FALSE, "unparsable", NoAnalysis) }
    \cup
    { AnalysisReply("", 200, FALSE, "object",
                    ToolAnalysis(web, << >>, db, EmptyMap, calc, EmptyMap)) :
        web \in BOOLEAN, db \in BOOLEAN, calc \in BOOLEAN }
    \cup
    { AnalysisReply("", 200, FALSE, "object",
                    ToolAnalysis(web, <<"refined">>, db,
                                 [query_type |-> <<"raw">>,
                                  query |-> <<"SELECT 1">>],
                                 calc,
                                 [operation |-> <<"divide">>,
                                  x |-> <<"1">>, y |-> <<"0">>])) :
        web \in BOOLEAN, db \in BOOLEAN, calc \in BOOLEAN }

\* analyzeQuerySemantics: the analysis read from the reply, or an error
analyzeQuerySemantics(query, reply) ==
    IF reply.err # ""
    THEN [analysis |-> NoAnalysis, err |-> "send request failed"]
    ELSE IF reply.status # 200
    THEN [analysis |-> NoAnalysis, err |-> "API request failed"]
    ELSE IF reply.readErr
    THEN [analysis |-> NoAnalysis, err |-> "read response failed"]
    ELSE IF reply.json = "none"
    THEN [analysis |-> NoAnalysis, err |-> "cannot extract JSON"]
    ELSE IF reply.json = "unparsable"
    THEN [analysis |-> NoAnalysis, err |-> "parse analysis failed"]
    ELSE [analysis |-> fillToolParameters(reply.analysis, query),
          err |-> ""]

\* mutant: a failed semantic analysis selects no tool
analyzeQueryForTools_NoFallback(query, reply) ==
    LET semantics == analyzeQuerySemantics(query, reply)
        toolAnalysis == semantics.analysis
        needed ==
            {name \in {"web_search", "database_query", "calculator"} :
                 \/ name = "web_search" /\ toolAnalysis.NeedsWebSearch
                 \/ name = "database_query" /\ toolAnalysis.NeedsDatabase
                 \/ name = "calculator" /\ toolAnalysis.NeedsCalculation}
    IN  IF semantics.err # ""
        THEN << >>
        ELSE Selected(<<ToolCall("web_search",
                                 [query |-> toolAnalysis.WebSearchQuery,
                                  limit |-> <<"5">>]),
                        ToolCall("database_query",
                                 toolAnalysis.DatabaseQuery),
                        ToolCall("calculator",
                                 toolAnalysis.CalculationArgs)>>,
                      needed)

\* analyzeQueryForTools: the tool calls of the semantic analysis, or of the
\* keyword matching when the semantic analysis fails
analyzeQueryForTools(query, reply) ==
    LET semantics == analyzeQuerySemantics(query, reply)
        toolAnalysis == semantics.analysis
        needed ==
            {name \in {"web_search", "database_query", "calculator"} :
                 \/ name = "web_search" /\ toolAnalysis.NeedsWebSearch
                 \/ name = "database_query" /\ toolAnalysis.NeedsDatabase
                 \/ name = "calculator" /\ toolAnalysis.NeedsCalculation}
    IN  IF semantics.err # ""
        THEN analyzeQueryForToolsFallback(query)
        ELSE Selected(<<ToolCall("web_search",
                                 [query |-> toolAnalysis.WebSearchQuery,
                                  limit |-> <<"5">>]),
                        ToolCall("database_query",
                                 toolAnalysis.DatabaseQuery),
                        ToolCall("calculator",
                                 toolAnalysis.CalculationArgs)>>,
                      needed)

\* the replies of the MCP client to a tool call: a transport error, or a
\* result with its error flag and its text contents
ToolReplies ==
    { [err |-> "transport closed", isError |-> FALSE, content |-> << >>],
      [err |-> "", isError |-> TRUE, content |-> <<"failed">>],
      [err |-> "", isError |-> FALSE, content |-> <<"alpha">>],
      [err |-> "", isError |-> FALSE, content |-> <<"beta", "gamma">>] }

RECURSIVE Lines(_)
\* each text content followed by a line break
Lines(content) ==
    IF content = << >> THEN << >>
    ELSE <<Head(content), "\n">> \o Lines(Tail(content))

\* formatToolResult: the text of a tool result
formatToolResult(result) ==
    IF result.isError
    THEN <<"tool execution failed: ">> \o result.content
    ELSE Lines(result.content)

RECURSIVE Numbered(_, _, _)
\* the tool results from the i-th on, each under its numbered heading
Numbered(heading, toolResults, i) ==
    IF i > Len(toolResults) THEN << >>
    ELSE <<heading, Numeral(i), ":\n">> \o toolResults[i] \o <<"\n">>
         \o Numbered(heading, toolResults, i + 1)

\* the prompt callLLM builds from the question and the tool results
Prompt(userQuery, toolResults) ==
    <<"user question: ">> \o userQuery \o <<"\n\n">>
    \o IF Len(toolResults) > 0
       THEN <<"I have obtained the following through tools:\n">>
            \o Numbered("\ntool result ", toolResults, 1)
            \o <<"\nplease answer on the basis of the above">>
       ELSE << >>

\* mutant: search enhancement is requested whatever the tool results
EnableSearch_Always(toolResults) == TRUE

\* ExtraBody.EnableSearch of the request callLLM sends
EnableSearch(toolResults) == Len(toolResults) = 0

\* the replies of the LLM endpoint to callLLM: the error of client.Do, the
\* status, whether reading the stream fails, and the text streamed
LLMReplies ==
    { [err |-> "connection refused", status |-> 0, readErr |-> FALSE,
       text |-> << >>],
      [err |-> "", status |-> 500, readErr |-> FALSE, text |-> << >>],
      [err |-> "", status |-> 200, readErr |-> TRUE, text |-> << >>],
      [err |-> "", status |-> 200, readErr |-> FALSE, text |-> << >>],
      [err |-> "", status |-> 200, readErr |-> FALSE,
       text |-> <<"the answer">>] }

\* callLLM: the answer streamed by the LLM, or an error
callLLM(userQuery, toolResults, reply) ==
    IF reply.err # ""
    THEN [text |-> << >>, err |-> "send request failed"]
    ELSE IF reply.status # 200
    THEN [text |-> << >>, err |-> "API request failed"]
    ELSE IF reply.readErr
    THEN [text |-> << >>, err |-> "read response failed"]
    ELSE IF reply.text = << >>
    THEN [text |-> <<"the LLM cannot answer for now">>, err |-> ""]
    ELSE [text |-> reply.text, err |-> ""]

\* generateDirectAnswer: the answer given without the LLM and without tools
generateDirectAnswer(query) ==
    <<"an ordinary question, answered directly: ">> \o query
    \o <<"\n(no external tool was called)">>

\* synthesizeAnswer: the answer put together from the tool results
synthesizeAnswer(userQuery, toolResults) ==
    <<"on your question ">> \o userQuery
    \o <<", I obtained the following through tools:\n\n">>
    \o Numbered("tool result ", toolResults, 1)
    \o <<"\nsummary:\n", "the complete answer from the data above">>

\* the assistant before ProcessUserQuery is called
NoQuery ==
    [pc |-> "idle", query |-> << >>, toolCalls |-> << >>,
     ToolsUsed |-> << >>, RawResults |-> << >>, FinalAnswer |-> << >>,
     log |-> << >>, returned |-> "", err |-> ""]

----------------------------------------------------------------------------
(* The feishu client. It keeps the tenant access token it fetched and      *)
(* fetches another one when none is kept or the kept one has expired.      *)
(* Times are in seconds.                                                   *)

\* Client.token when no token has been fetched
NoToken == [Token |-> "", Expire |-> 0, ExpiresAt |-> 0, set |-> FALSE]

\* tenantAccessToken: a fetched token and the time it expires
tenantAccessToken(token, expire, expiresAt) ==
    [Token |-> token, Expire |-> expire, ExpiresAt |-> expiresAt,
     set |-> TRUE]

\* the replies of the token API: the error of Client.Post, whether reading
\* the body fails, whether the body is JSON, its code, whether it carries a
\* token string and a lifetime, and these two; took is the time the request
\* took
TokenReply(err, readErr, json, code, complete, token, expire, took) ==
    [err |-> err, readErr |-> readErr, json |-> json, code |-> code,
     complete |-> complete, token |-> token, expire |-> expire,
     took |-> took]

TokenReplies ==
    { TokenReply("connection refused", FALSE, FALSE, 0, FALSE, "", 0, 0),
      TokenReply("", TRUE, FALSE, 0, FALSE, "", 0, 0),
      TokenReply("", FALSE, FALSE, 0, FALSE, "", 0, 0),
      TokenReply("", FALSE, TRUE, 10003, FALSE, "", 0, 0),
      TokenReply("", FALSE, TRUE, 0, FALSE, "", 0, 0) }
    \cup
    { TokenReply("", FALSE, TRUE, 0, TRUE, token, expire, took) :
        token \in {"t-1", "t-2"}, expire \in {30, 120, 180},
        took \in {0, 60} }

\* mutant: a token is kept for its whole lifetime once fetched, expired or not
refreshToken_NeverExpires(token, now, reply) ==
    IF token.set
    THEN [token |-> token, value |-> token.Token, err |-> "",
          requested |-> FALSE, took |-> 0]
    ELSE IF reply.err # ""
    THEN [token |-> token, value |-> "", err |-> "token request failed",
          requested |-> TRUE, took |-> reply.took]
    ELSE IF reply.readErr
    THEN [token |-> token, value |-> "", err |-> "read token reply failed",
          requested |-> TRUE, took |-> reply.took]
    ELSE IF ~reply.json
    THEN [token |-> token, value |-> "", err |-> "parse token JSON failed",
          requested |-> TRUE, took |-> reply.took]
    ELSE IF reply.code # 0
    THEN [token |-> token, value |-> "", err |-> "get token failed",
          requested |-> TRUE, took |-> reply.took]
    ELSE IF ~reply.complete
    THEN [token |-> token, value |-> "", err |-> "panic",
          requested |-> TRUE, took |-> reply.took]
    ELSE [token |-> tenantAccessToken(reply.token, reply.expire,
                                      now + reply.took + reply.expire - 60),
          value |-> reply.token, err |-> "",
          requested |-> TRUE, took |-> reply.took]

\* refreshToken: the kept token while it has not expired, else a token
\* fetched from the token API; the result tells the token kept afterwards,
\* the token returned, the error, and whether a token request was sent
refreshToken(token, now, reply) ==
    IF token.set /\ now < token.ExpiresAt
    THEN [token |-> token, value |-> token.Token, err |-> "",
          requested |-> FALSE, took |-> 0]
    ELSE IF reply.err # ""
    THEN [token |-> token, value |-> "", err |-> "token request failed",
          requested |-> TRUE, took |-> reply.took]
    ELSE IF reply.readErr
    THEN [token |-> token, value |-> "", err |-> "read token reply failed",
          requested |-> TRUE, took |-> reply.took]
    ELSE IF ~reply.json
    THEN [token |-> token, value |-> "", err |-> "parse token JSON failed",
          requested |-> TRUE, took |-> reply.took]
    ELSE IF reply.code # 0
    THEN [token |-> token, value |-> "", err |-> "get token failed",
          requested |-> TRUE, took |-> reply.took]
    ELSE IF ~reply.complete
    THEN [token |-> token, value |-> "", err |-> "panic",
          requested |-> TRUE, took |-> reply.took]
    ELSE [token |-> tenantAccessToken(reply.token, reply.expire,
                                      now + reply.took + reply.expire - 60),
          value |-> reply.token, err |-> "",
          requested |-> TRUE, took |-> reply.took]

\* the replies of the append API: the error of Client.Do and the status
AppendReplies ==
    { [err |-> "connection refused", status |-> 0],
      [err |-> "", status |-> 403],
      [err |-> "", status |-> 200] }

\* NewClient: a client that has fetched no token and sent no request; last
\* is the record of its last call, made at one time and over at another
NoClientCall ==
    [op |-> "", tokenBefore |-> NoToken, at |-> 0, until |-> 0,
     tokenRequested |-> FALSE,
     appendSent |-> FALSE, bearer |-> "", value |-> "", err |-> ""]

NewClient ==
    [token |-> NoToken, now |-> 0, calls |-> 0, last |-> NoClientCall]

----------------------------------------------------------------------------
Init ==
    /\ pc = "registerTools"
    /\ tools = [n \in {} |-> ""]
    /\ resources = {}
    /\ prompts = {}
    /\ fs \in [Paths -> Contents \cup {NoFile}]
    /\ last = NoCall
    /\ faultSeen = FALSE
    /\ before = fs
    /\ ctx = Live
    /\ listings = << >>
    /\ inflight = [id \in RequestIds |-> Idle]
    /\ ia = NoQuery
    /\ feishu = NewClient

registerTools ==
    /\ pc = "registerTools"
    /\ tools' = AddAll(tools, BasicTools)
    /\ pc' = "registerAdvancedTools"
    /\ UNCHANGED <<resources, prompts, fs, last, faultSeen, before, ctx,
                 listings, inflight, ia, feishu>>

registerAdvancedTools ==
    /\ pc = "registerAdvancedTools"
    /\ tools' = AddAll(tools, AdvancedTools)
    /\ pc' = "registerResources"
    /\ UNCHANGED <<resources, prompts, fs, last, faultSeen, before, ctx,
                 listings, inflight, ia, feishu>>

\* mutant: main starts serving right after the resources, before the
\* prompts are registered
registerResources_ThenServe ==
    /\ pc = "registerResources"
    /\ resources' = resources \cup StatusResources
    /\ pc' = "ServeStdio"
    /\ UNCHANGED <<tools, prompts, fs, last, faultSeen, before, ctx,
                 listings, inflight, ia, feishu>>

registerResources ==
    /\ pc = "registerResources"
    /\ resources' = resources \cup StatusResources
    /\ pc' = "registerPrompts"
    /\ UNCHANGED <<tools, prompts, fs, last, faultSeen, before, ctx,
                 listings, inflight, ia, feishu>>

registerPrompts ==
    /\ pc = "registerPrompts"
    /\ prompts' = prompts \cup PromptNames
    /\ pc' = "ServeStdio"
    /\ UNCHANGED <<tools, resources, fs, last, faultSeen, before, ctx,
                 listings, inflight, ia, feishu>>

\* server.ServeStdio(mcpServer): from here on the server reads calls
ServeStdio ==
    /\ pc = "ServeStdio"
    /\ pc' = "serving"
    /\ UNCHANGED <<tools, resources, prompts, fs, last, faultSeen, before, ctx,
                 listings, inflight, ia, feishu>>

\* one tools/call request for a registered tool: the server runs the handler
\* bound to the name and answers with what the handler returns
Serve(c) ==
    /\ c.tool \in DOMAIN tools
    /\ LET ret == Run(tools[c.tool], c.args, fs, c.env) IN
          /\ last' = [tool |-> c.tool, args |-> c.args, env |-> c.env,
                      result |-> ret.result, err |-> ret.err]
          /\ fs' = ret.fs
          /\ before' = fs
    /\ faultSeen' = (faultSeen \/ Faulted(last, fs))

CallTool ==
    /\ pc = "serving"
    /\ \E c \in Calls : Serve(c)
    /\ UNCHANGED <<pc, tools, resources, prompts, ctx, listings, inflight, ia, feishu>>

Next ==
    \/ registerTools
    \/ registerAdvancedTools
    \/ registerResources
    \/ registerPrompts
    \/ ServeStdio
    \/ CallTool

Spec == Init /\ [][Next]_vars

----------------------------------------------------------------------------
(* Listing the tools. A client lists the tool definitions and calls the    *)
(* calculator, as the demo client does; the server answers a tools/list    *)
(* request from its tool table.                                            *)

\* the listings a client asks for
MaxListings == 2

\* the description each mcp.NewTool call gives the tool (glosses of the
\* Chinese texts)
ToolDescription(name) ==
    CASE name = "calculator" -> "basic arithmetic"
      [] name = "read_file" -> "read a file"
      [] name = "write_file" -> "write a file"
      [] name = "http_request" -> "send an HTTP request"
      [] name = "system_info" -> "system information"
      [] name = "current_time" -> "current time"
      [] name = "web_search" -> "web search"
      [] name = "database_query" -> "run a database query"
      [] name = "analyze_file" -> "analyze a file"
      [] name = "scan_directory" -> "scan a directory"
      [] name = "network_monitor" -> "network monitoring"
      [] name = "process_data" -> "process data"
      [] name = "analyze_code" -> "analyze code"
      [] name = "system_monitor" -> "monitor the system"

\* mutant: the listing leaves out the tool whose call has just failed
ListDefinitions_HideFailed ==
    [n \in {m \in DOMAIN tools : ~(m = last.tool /\ last.result.isError)} |->
        [name |-> n, description |-> ToolDescription(n),
         parameters |-> ToolParams(n)]]

\* the answer to tools/list: the definition of every tool in the table
ListDefinitions ==
    [n \in DOMAIN tools |->
        [name |-> n, description |-> ToolDescription(n),
         parameters |-> ToolParams(n)]]

\* how the last call ended, "none" before the first call
Outcome(c) ==
    IF c.tool = "" THEN "none"
    ELSE IF c.result.isError THEN "failure" ELSE "success"

\* one tools/list request; the listing is kept together with the outcome
\* of the call served just before it
ListTools ==
    /\ pc = "serving"
    /\ Len(listings) < MaxListings
    /\ listings' = Append(listings, [defs |-> ListDefinitions,
                                     after |-> Outcome(last)])
    /\ UNCHANGED <<pc, tools, resources, prompts, fs, last, faultSeen,
                   before, ctx, inflight, ia, feishu>>

\* the calls made between the listings: calculator calls, as the demo
\* client makes, and read_file calls
DemoCalls == {c \in Calls : c.tool \in {"calculator", "read_file"}}

CallDemo ==
    /\ pc = "serving"
    /\ \E c \in DemoCalls : Serve(c)
    /\ UNCHANGED <<pc, tools, resources, prompts, ctx, listings, inflight, ia, feishu>>

NextList ==
    \/ registerTools
    \/ registerAdvancedTools
    \/ registerResources
    \/ registerPrompts
    \/ ServeStdio
    \/ CallDemo
    \/ ListTools

SpecList == Init /\ [][NextList]_vars

----------------------------------------------------------------------------
(* Cancellation. The context of a call may be cancelled while its handler  *)
(* is at work on the network or on the database.                           *)

\* the handler of call c gets past its parameter checks and turns to the
\* network or the database
ReachesOutside(c) ==
    CASE c.tool = "http_request" ->
           HasStr(c, "url") /\ ValidMethod(GetString(c.args, "method", "GET"))
      [] c.tool = "web_search" ->
           /\ HasStr(c, "query")
           /\ GetString(c.args, "engine", "google")
                  \in {"google", "bing", "duckduckgo"}
      [] c.tool = "database_query" ->
           /\ HasStr(c, "connection_string") /\ HasStr(c, "driver")
           /\ HasStr(c, "query")
           /\ c.args["driver"].s \in DriverNames
      [] c.tool = "network_monitor" ->
           /\ HasStr(c, "target") /\ HasStr(c, "action")
           /\ \/ c.args["action"].s = "ping"
              \/ /\ c.args["action"].s = "port_scan"
                 /\ GetString(c.args, "ports", "") # ""
      [] OTHER -> FALSE

\* the operations the handler then starts, in order, when none of them
\* fails: one dial per port for a port scan
Operations(c) ==
    CASE c.tool \in {"http_request", "web_search"} -> <<"client.Do">>
      [] c.tool = "database_query" -> <<"db.PingContext", "db.QueryContext">>
      [] c.tool = "network_monitor" ->
           IF c.args["action"].s = "ping" THEN <<"net.DialTimeout">>
           ELSE [i \in DOMAIN parsePortList(GetString(c.args, "ports", ""))
                    |-> "net.DialTimeout"]

\* the operation is handed the context of the call
TakesContext(op) == op \in {"client.Do", "db.PingContext", "db.QueryContext"}

\* the outside world lets every operation of the call complete
Completes(c) == c.env \in {"200", "array", "object", "ok", "open", "closed"}

\* what the handler meets when the context is cancelled after `at` of its
\* operations: the next operation fails on the context if it takes it,
\* and runs as if nothing had happened if it does not
CancelledEnv(c, at) ==
    LET op == Operations(c)[at + 1] IN
    CASE op = "client.Do" -> "canceled"
      [] op = "db.PingContext" -> "ping canceled"
      [] op = "db.QueryContext" -> "query canceled"
      [] OTHER -> c.env

\* the operations the handler has started when it returns
Started(c, at) ==
    IF TakesContext(Operations(c)[at + 1]) THEN at + 1
    ELSE Len(Operations(c))

\* the calls of the tools that work on the network or on the database
OutsideCalls ==
    {c \in Calls : c.tool \in {"http_request", "web_search", "database_query",
                               "network_monitor"}}

\* a call whose context stays live
CallLive ==
    /\ pc = "serving"
    /\ \E c \in OutsideCalls : Serve(c)
    /\ ctx' = Live
    /\ UNCHANGED <<pc, tools, resources, prompts, listings, inflight, ia, feishu>>

\* a call whose context is cancelled when `at` of its operations are done
CallCancelled ==
    /\ pc = "serving"
    /\ \E c \in OutsideCalls :
          /\ ReachesOutside(c)
          /\ Completes(c)
          /\ \E at \in 0 .. (Len(Operations(c)) - 1) :
                /\ Serve([c EXCEPT !.env = CancelledEnv(c, at)])
                /\ ctx' = [cancelled |-> TRUE, at |-> at,
                           started |-> Started(c, at)]
    /\ UNCHANGED <<pc, tools, resources, prompts, listings, inflight, ia, feishu>>

NextCtx ==
    \/ registerTools
    \/ registerAdvancedTools
    \/ registerResources
    \/ registerPrompts
    \/ ServeStdio
    \/ CallLive
    \/ CallCancelled

SpecCtx == Init /\ [][NextCtx]_vars

----------------------------------------------------------------------------
(* Concurrent calls. The server starts the handler of a request while      *)
(* the handlers of earlier requests are still at work. A handler keeps the *)
(* request it was given in its own parameters and local variables; the     *)
(* only package-level variable, startTime, is written once at start-up.    *)

\* the calls a client has in flight together
ConcurrentCalls ==
    {c \in Calls :
        \/ /\ c.tool = "calculator"
           /\ DOMAIN c.args = {"operation", "x", "y"}
           /\ c.args["operation"].s \in {"add", "divide"}
           /\ c.args["x"] = FloatNum(155)
           /\ c.args["y"] \in {FloatNum(243), IntNum(0)}
        \/ c.tool = "scan_directory" /\ DOMAIN c.args = {"path"}
        \/ /\ c.tool = "read_file"
           /\ HasStr(c, "path") /\ c.args["path"].s = "/tmp/a.txt"
           /\ c.env = "ok"
        \/ /\ c.tool = "write_file"
           /\ DOMAIN c.args = {"path", "content"}
           /\ c.env = "ok"}

\* mutant: the handlers keep the arguments in one package-level variable,
\* which the start of a call overwrites for the calls at work
Begin_SharedArguments(id) ==
    /\ pc = "serving"
    /\ ~inflight[id].busy
    /\ \E c \in ConcurrentCalls :
          /\ c.tool \in DOMAIN tools
          /\ inflight' =
                [j \in RequestIds |->
                    IF j = id
                    THEN [busy |-> TRUE, request |-> c, args |-> c.args,
                          done |-> ""]
                    ELSE IF inflight[j].busy
                         THEN [inflight[j] EXCEPT !.args = c.args]
                         ELSE inflight[j]]
    /\ UNCHANGED <<pc, tools, resources, prompts, fs, last, faultSeen,
                   before, ctx, listings, ia, feishu>>

\* the server starts the handler of a request: the handler holds the
\* request's arguments in its own variables
Begin(id) ==
    /\ pc = "serving"
    /\ ~inflight[id].busy
    /\ \E c \in ConcurrentCalls :
          /\ c.tool \in DOMAIN tools
          /\ inflight' = [inflight EXCEPT
                            ![id] = [busy |-> TRUE, request |-> c,
                                     args |-> c.args, done |-> ""]]
    /\ UNCHANGED <<pc, tools, resources, prompts, fs, last, faultSeen,
                   before, ctx, listings, ia, feishu>>

\* the handler runs on the arguments it holds and the server answers the
\* request with what it returns
End(id) ==
    /\ pc = "serving"
    /\ inflight[id].busy
    /\ Serve([tool |-> inflight[id].request.tool,
              args |-> inflight[id].args,
              env |-> inflight[id].request.env])
    /\ inflight' =
          [j \in RequestIds |->
              IF j = id
              THEN [Idle EXCEPT !.done =
                      IF \E k \in RequestIds \ {id} : inflight[k].busy
                      THEN "overlapped" ELSE "alone"]
              ELSE [inflight[j] EXCEPT !.done = ""]]
    /\ UNCHANGED <<pc, tools, resources, prompts, ctx, listings, ia, feishu>>

NextConcurrent ==
    \/ registerTools
    \/ registerAdvancedTools
    \/ registerResources
    \/ registerPrompts
    \/ ServeStdio
    \/ \E id \in RequestIds : Begin(id)
    \/ \E id \in RequestIds : End(id)

SpecConcurrent == Init /\ [][NextConcurrent]_vars

----------------------------------------------------------------------------
(* One user query put to the intelligent assistant. ProcessUserQuery waits *)
(* for the analysis, then for each tool call in turn, then for the LLM.    *)

\* the server the assistant talks to is not part of its run
Quiet ==
    UNCHANGED <<pc, tools, resources, prompts, fs, last, faultSeen, before,
                ctx, listings, inflight>>

\* what the assistant sent, and the reply it got
Sent(kind, name, args, prompt, enableSearch, stream, err, isError, content) ==
    [kind |-> kind, name |-> name, args |-> args, prompt |-> prompt,
     enableSearch |-> enableSearch, stream |-> stream,
     reply |-> [err |-> err, isError |-> isError, content |-> content]]

\* ProcessUserQuery, from its call to the tool calls the analysis selects;
\* the analysis request is sent without search and without streaming
ProcessUserQuery_analyze ==
    /\ ia.pc = "idle"
    /\ \E userQuery \in Queries, reply \in AnalysisReplies :
          LET toolCalls == analyzeQueryForTools(userQuery, reply)
          IN  ia' = [ia EXCEPT
                  !.pc = IF Len(toolCalls) = 0 THEN "llm" ELSE "tools",
                  !.query = userQuery,
                  !.toolCalls = toolCalls,
                  !.log = Append(@,
                      Sent("analysis", "", EmptyMap,
                           <<"analyse the query: ">> \o userQuery, FALSE,
                           FALSE,
                           analyzeQuerySemantics(userQuery, reply).err,
                           FALSE, << >>))]
    /\ UNCHANGED feishu
    /\ Quiet

\* mutant: a tool call that fails in transport is passed over
ProcessUserQuery_callTool_SkipFailed ==
    /\ ia.pc = "tools"
    /\ \E reply \in ToolReplies :
          LET i == Len(ia.log)
              toolCall == ia.toolCalls[i]
              sent == Sent("tool", toolCall.Name, toolCall.Args, << >>,
                           FALSE, FALSE, reply.err, reply.isError,
                           reply.content)
              more == IF i = Len(ia.toolCalls) THEN "llm" ELSE "tools"
          IN  IF reply.err # ""
              THEN ia' = [ia EXCEPT !.pc = more, !.log = Append(@, sent)]
              ELSE ia' = [ia EXCEPT
                      !.pc = more,
                      !.ToolsUsed = Append(@, toolCall),
                      !.RawResults = Append(@, formatToolResult(reply)),
                      !.log = Append(@, sent)]
    /\ UNCHANGED feishu
    /\ Quiet

\* one turn of the loop over the tool calls: the next tool is called, and
\* its result is kept, or its error ends ProcessUserQuery
ProcessUserQuery_callTool ==
    /\ ia.pc = "tools"
    /\ \E reply \in ToolReplies :
          LET i == Len(ia.log)
              toolCall == ia.toolCalls[i]
              sent == Sent("tool", toolCall.Name, toolCall.Args, << >>,
                           FALSE, FALSE, reply.err, reply.isError,
                           reply.content)
              more == IF i = Len(ia.toolCalls) THEN "llm" ELSE "tools"
          IN  IF reply.err # ""
              THEN ia' = [ia EXCEPT
                      !.pc = "done",
                      !.returned = Nil,
                      !.err = "tool call failed",
                      !.log = Append(@, sent)]
              ELSE ia' = [ia EXCEPT
                      !.pc = more,
                      !.ToolsUsed = Append(@, toolCall),
                      !.RawResults = Append(@, formatToolResult(reply)),
                      !.log = Append(@, sent)]
    /\ UNCHANGED feishu
    /\ Quiet

\* mutant: an error of callLLM is returned to the caller
ProcessUserQuery_answer_ReturnError ==
    /\ ia.pc = "llm"
    /\ \E reply \in LLMReplies :
          LET llm == callLLM(ia.query, ia.RawResults, reply)
              sent == Sent("llm", "", EmptyMap,
                           Prompt(ia.query, ia.RawResults),
                           EnableSearch(ia.RawResults), TRUE, llm.err,
                           FALSE, llm.text)
          IN  IF llm.err # ""
              THEN ia' = [ia EXCEPT
                      !.pc = "done",
                      !.returned = Nil,
                      !.err = llm.err,
                      !.log = Append(@, sent)]
              ELSE ia' = [ia EXCEPT
                      !.pc = "done",
                      !.FinalAnswer = llm.text,
                      !.returned = "result",
                      !.log = Append(@, sent)]
    /\ UNCHANGED feishu
    /\ Quiet

\* the end of ProcessUserQuery: the LLM is asked for the answer, and the
\* answer made without it stands in when it fails
ProcessUserQuery_answer ==
    /\ ia.pc = "llm"
    /\ \E reply \in LLMReplies :
          LET llm == callLLM(ia.query, ia.RawResults, reply)
              sent == Sent("llm", "", EmptyMap,
                           Prompt(ia.query, ia.RawResults),
                           EnableSearch(ia.RawResults), TRUE, llm.err,
                           FALSE, llm.text)
          IN  ia' = [ia EXCEPT
                  !.pc = "done",
                  !.FinalAnswer =
                      IF llm.err = "" THEN llm.text
                      ELSE IF Len(ia.toolCalls) = 0
                      THEN generateDirectAnswer(ia.query)
                      ELSE synthesizeAnswer(ia.query, ia.RawResults),
                  !.returned = "result",
                  !.log = Append(@, sent)]
    /\ UNCHANGED feishu
    /\ Quiet

\* the assistant is started against a server of its own
InitAssistant ==
    /\ Init
    /\ fs = [p \in Paths |-> NoFile]

NextAssistant ==
    \/ ProcessUserQuery_analyze
    \/ ProcessUserQuery_callTool
    \/ ProcessUserQuery_answer

SpecAssistant == InitAssistant /\ [][NextAssistant]_vars

----------------------------------------------------------------------------
(* Calls of the feishu client, one after the other, while time passes.     *)

\* the calls made of one client, and the time they are spread over
MaxClientCalls == 3

MaxClock == 240

\* a minute passes
Tick ==
    /\ feishu.now + 60 <= MaxClock
    /\ feishu' = [feishu EXCEPT !.now = @ + 60]
    /\ UNCHANGED ia
    /\ Quiet

\* a call of refreshToken
CallRefreshToken ==
    /\ feishu.calls < MaxClientCalls
    /\ \E reply \in TokenReplies :
          LET r == refreshToken(feishu.token, feishu.now, reply)
          IN  feishu' =
                  [token |-> r.token,
                   now |-> feishu.now + r.took,
                   calls |-> feishu.calls + 1,
                   last |-> [op |-> "refreshToken",
                             tokenBefore |-> feishu.token,
                             at |-> feishu.now,
                             until |-> feishu.now + r.took,
                             tokenRequested |-> r.requested,
                             appendSent |-> FALSE,
                             bearer |-> "",
                             value |-> r.value,
                             err |-> r.err]]
    /\ UNCHANGED ia
    /\ Quiet

\* AppendTextToDoc: the text is appended under the token refreshToken
\* returns; without a token nothing is sent to the append API
AppendTextToDoc ==
    /\ feishu.calls < MaxClientCalls
    /\ \E tokenReply \in TokenReplies, appendReply \in AppendReplies :
          LET r == refreshToken(feishu.token, feishu.now, tokenReply)
          IN  feishu' =
                  [token |-> r.token,
                   now |-> feishu.now + r.took,
                   calls |-> feishu.calls + 1,
                   last |-> [op |-> "AppendTextToDoc",
                             tokenBefore |-> feishu.token,
                             at |-> feishu.now,
                             until |-> feishu.now + r.took,
                             tokenRequested |-> r.requested,
                             appendSent |-> r.err = "",
                             bearer |-> IF r.err = "" THEN r.value ELSE "",
                             value |-> r.value,
                             err |-> IF r.err # "" THEN r.err
                                     ELSE IF appendReply.err # ""
                                     THEN "append request failed"
                                     ELSE IF appendReply.status # 200
                                     THEN "append API error status"
                                     ELSE ""]]
    /\ UNCHANGED ia
    /\ Quiet

\* the client is made by NewClient; no server is involved
InitFeishu ==
    /\ Init
    /\ fs = [p \in Paths |-> NoFile]

NextFeishu ==
    \/ Tick
    \/ CallRefreshToken
    \/ AppendTextToDoc

SpecFeishu == InitFeishu /\ [][NextFeishu]_vars

----------------------------------------------------------------------------
(* Properties.                                                             *)

\* a call has been served
Served == last.tool # ""

HasNum(c, key) == key \in DOMAIN c.args /\ IsNumber(c.args[key])

\* C1: every call to a registered tool ends with a tool result, a success
\* text or a failure message, and a nil Go error; the server goes on serving.
C1_ResultAndNilError ==
    Served =>
        /\ last.tool \in DOMAIN tools
        /\ last.err = Nil
        /\ last.result.isError \in BOOLEAN
        /\ last.result.text.fmt # ""
        /\ pc = "serving"

\* a failure and a nil error from handleNetworkMonitor
C1_Witness ==
    /\ last.tool = "network_monitor"
    /\ last.result.isError
    /\ last.err = Nil

\* the other required parameters of the tool, all present and well typed
OthersWellTyped(c, i) ==
    \A j \in DOMAIN ToolParams(c.tool) \ {i} :
        LET q == ToolParams(c.tool)[j] IN
        q.required =>
            q.name \in DOMAIN c.args /\ KindOf(c.args[q.name]) = q.kind

\* C2: a call that omits one required parameter p, the other required
\* parameters being present and well typed, returns a failure whose message
\* contains the name p.
C2_MissingRequiredNamed ==
    Served =>
        \A i \in DOMAIN ToolParams(last.tool) :
            LET p == ToolParams(last.tool)[i] IN
            (p.required /\ p.name \notin DOMAIN last.args
                /\ OthersWellTyped(last, i))
            => /\ last.result.isError
               /\ p.name \in Range(last.result.text.strs)

\* write_file called without content
C2_Witness ==
    /\ last.tool = "write_file"
    /\ "path" \in DOMAIN last.args
    /\ "content" \notin DOMAIN last.args
    /\ last.result.isError
    /\ "content" \in Range(last.result.text.strs)

\* the parameters declared with an enum that the handlers in main.go read
EnumParams ==
    { <<"calculator", "operation">>, <<"http_request", "method">>,
      <<"web_search", "engine">>, <<"database_query", "driver">>,
      <<"analyze_file", "analysis_type">>, <<"network_monitor", "action">>,
      <<"process_data", "format">>, <<"process_data", "operation">> }

\* the declared enum of a parameter
EnumOf(tool, key) ==
    LET i == CHOOSE i \in DOMAIN ToolParams(tool) :
                 ToolParams(tool)[i].name = key
    IN  ToolParams(tool)[i].enum

\* the failure texts with which a handler rejects the value of an enum
\* parameter
Rejections ==
    {"unsupported operation", "unsupported search engine",
     "unsupported data format", "unsupported network action",
     "unsupported data operation"}

\* C3: for every parameter declared with an enum, a call supplying a value
\* outside the enum returns a failure, and a call supplying a value inside
\* the enum is not rejected because of that value.
C3_EnumEnforced ==
    Served =>
        \A ep \in EnumParams :
            (ep[1] = last.tool /\ HasStr(last, ep[2])) =>
                LET v == last.args[ep[2]].s IN
                /\ v \notin EnumOf(ep[1], ep[2]) => last.result.isError
                /\ v \in EnumOf(ep[1], ep[2]) =>
                       ~(/\ last.result.isError
                         /\ last.result.text.fmt \in Rejections)

\* analyze_file answers a success for an analysis_type outside its enum
C3_Witness ==
    /\ last.tool = "analyze_file"
    /\ HasStr(last, "analysis_type")
    /\ last.args["analysis_type"].s = "deep"
    /\ ~last.result.isError

\* a calculator call with an operation of the enum and two numbers that is
\* not a division by zero
ValidCalc(c) ==
    /\ c.tool = "calculator"
    /\ HasStr(c, "operation")
    /\ c.args["operation"].s \in {"add", "subtract", "multiply", "divide"}
    /\ HasNum(c, "x") /\ HasNum(c, "y")
    /\ ~(c.args["operation"].s = "divide" /\ c.args["y"].n = 0)

\* the messages of the operating system and the network
OSErrors ==
    {"no such file or directory", "permission denied", "connection refused",
     "unexpected EOF"}

DivByZero(c) ==
    /\ c.tool = "calculator"
    /\ HasStr(c, "operation") /\ c.args["operation"].s = "divide"
    /\ HasNum(c, "x")
    /\ HasNum(c, "y") /\ c.args["y"].n = 0

\* C6: calculator with operation divide and y = 0 returns, for every x, the
\* division-by-zero failure; no quotient is computed and the server keeps
\* serving.
C6_DivideByZeroFails ==
    DivByZero(last) =>
        /\ last.result.isError
        /\ last.result.text.fmt = "divisor must not be zero"
        /\ last.result.text.nums = <<>>
        /\ last.err = Nil
        /\ pc = "serving"

\* a division by the floating zero
C6_Witness ==
    /\ DivByZero(last)
    /\ last.args["y"].t = "float"
    /\ last.result.isError

Abs(i) == IF i < 0 THEN -i ELSE i

\* C7: for add, subtract, multiply, and for divide with y # 0, calculator
\* returns a success whose text reports x op y to two decimals (operands in
\* tenths, the reported value r in hundredths); 15.5 + 24.3 reports 39.80.
C7_CalculatorValue ==
    ValidCalc(last) =>
        /\ ~last.result.isError
        /\ last.err = Nil
        /\ Len(last.result.text.nums) = 3
        /\ LET x == last.args["x"].n
               y == last.args["y"].n
               op == last.args["operation"].s
               r == last.result.text.nums[3]
           IN  /\ op = "add" => r = 10 * (x + y)
               /\ op = "subtract" => r = 10 * (x - y)
               /\ op = "multiply" => r = x * y
               /\ op = "divide" => 2 * Abs(r * y - 100 * x) <= Abs(y)
               /\ (op = "add" /\ x = 155 /\ y = 243) => r = 3980

\* a quotient that is rounded up: 15.5 / 24.3 reports 0.64
C7_Witness ==
    /\ ValidCalc(last)
    /\ last.args["operation"].s = "divide"
    /\ last.args["x"].n = 155
    /\ last.args["y"].n = 243
    /\ last.result.text.nums[3] = 64

\* the arguments with the integer under key replaced by the equal float
FloatTwin(args, key) == With(args, key, FloatNum(args[key].n))

\* C8: for every numeric parameter, the call with an integer-shaped value
\* passes the validation of that parameter and returns the result that the
\* call with the equal floating-shaped value returns.
C8_IntegerAndFloatAgree ==
    Served =>
        \A i \in DOMAIN ToolParams(last.tool) :
            LET p == ToolParams(last.tool)[i] IN
            (p.kind = "number" /\ p.name \in DOMAIN last.args
                /\ last.args[p.name].t = "int")
            => /\ Run(tools[last.tool], FloatTwin(last.args, p.name), fs,
                      last.env).result = last.result
               /\ ~(/\ last.result.isError
                    /\ p.name \in Range(last.result.text.strs))

\* calculator served x = 10 (integer) and reports 10.00 for it
C8_Witness ==
    /\ ValidCalc(last)
    /\ last.args["x"].t = "int"
    /\ last.result.text.nums[1] = 1000

Registered ==
    /\ DOMAIN tools = ToolNames
    /\ resources = StatusResources
    /\ prompts = PromptNames

\* C10: every registration is done when the server starts to serve: a call is
\* only dispatched against the complete tables, and once serving has started
\* no table changes.
C10_RegistrationBeforeServing ==
    /\ []((Served \/ pc = "serving") => Registered)
    /\ [][pc = "serving" =>
              /\ tools' = tools
              /\ resources' = resources
              /\ prompts' = prompts
              /\ pc' = "serving"]_vars

\* a call served by the fully registered server
C10_Witness ==
    /\ pc = "serving"
    /\ Served
    /\ Registered

Declared(tool) == {ToolParams(tool)[i].name : i \in DOMAIN ToolParams(tool)}

\* keys and values a client may add to the arguments of any call
ExtraArguments ==
    { <<"limit", IntNum(1)>>, <<"limit", IntNum(25)>>,
      <<"query_type", Str("raw")>>, <<"verbose", Bool(TRUE)>> }

\* C12: a key that the tool's definition does not declare has no effect:
\* the call served last returns the same result as the call that differs
\* from it only in the value of an undeclared key, run from the same file
\* system and under the same outcome of the outside world.
C12_UndeclaredIgnored ==
    Served =>
        \A kv \in ExtraArguments :
            kv[1] \notin Declared(last.tool)
            => Run(tools[last.tool], With(last.args, kv[1], kv[2]), before,
                   last.env).result = last.result

\* web_search served with the undeclared key limit = 1 lists one result
C12_Witness ==
    /\ last.tool = "web_search"
    /\ "limit" \in DOMAIN last.args
    /\ last.args["limit"].n = 10
    /\ last.env = "array"
    /\ ~last.result.isError
    /\ last.result.text.nums = <<1>>

\* C13: for every optional parameter declared with a default, the call
\* that omits the parameter returns the result of the call that carries the
\* declared default value under that key.
C13_DefaultSubstituted ==
    Served =>
        \A i \in DOMAIN ToolParams(last.tool) :
            LET p == ToolParams(last.tool)[i] IN
            (p.default # NoDefault /\ p.name \notin DOMAIN last.args)
            => Run(tools[last.tool], With(last.args, p.name, p.default),
                   before, last.env).result = last.result

\* scan_directory served without max_depth reports the depth limit 5
C13_Witness ==
    /\ last.tool = "scan_directory"
    /\ "max_depth" \notin DOMAIN last.args
    /\ "recursive" \notin DOMAIN last.args
    /\ ~last.result.isError
    /\ last.result.text.nums[1] = 5

\* the required parameters of its tool that call c omits, by position
MissingRequired(c) ==
    {i \in DOMAIN ToolParams(c.tool) :
        /\ ToolParams(c.tool)[i].required
        /\ ToolParams(c.tool)[i].name \notin DOMAIN c.args}

FirstMissing(c) ==
    CHOOSE i \in MissingRequired(c) : \A j \in MissingRequired(c) : i <= j

\* the parameters declared before position i that the call carries are of
\* the declared kind
EarlierWellTyped(c, i) ==
    \A j \in 1 .. (i - 1) :
        LET q == ToolParams(c.tool)[j] IN
        q.name \in DOMAIN c.args => KindOf(c.args[q.name]) = q.kind

\* C14: a call that omits several required parameters returns a failure
\* that names the omitted parameter declared first, and the parameters
\* declared after it are not examined: whatever value one of them takes,
\* the result is the same.
C14_DeclarationOrder ==
    (Served /\ Cardinality(MissingRequired(last)) >= 2
        /\ EarlierWellTyped(last, FirstMissing(last)))
    => LET i == FirstMissing(last)
           p == ToolParams(last.tool)[i]
       IN  /\ last.result.isError
           /\ last.result.text.strs = <<p.name>>
           /\ \A j \in DOMAIN ToolParams(last.tool) :
                 \A v \in {Str("zz"), IntNum(7)} :
                    j > i =>
                      Run(tools[last.tool],
                          With(last.args, ToolParams(last.tool)[j].name, v),
                          before, last.env).result = last.result

\* database_query served without connection_string and without query
C14_Witness ==
    /\ last.tool = "database_query"
    /\ "connection_string" \notin DOMAIN last.args
    /\ "query" \notin DOMAIN last.args
    /\ "driver" \in DOMAIN last.args
    /\ last.result.isError
    /\ last.result.text.strs = <<"connection_string">>

\* the path call c names exists in the file system the call started from:
\* a file for read_file and analyze_file, the directory tree for
\* scan_directory
PathExists(c, files) ==
    IF c.tool = "scan_directory" THEN c.args["path"].s = "/data"
    ELSE /\ c.args["path"].s \in DOMAIN files
         /\ files[c.args["path"].s] # NoFile

\* C15: read_file, analyze_file or scan_directory called on a path that
\* does not exist, or that cannot be read, returns a failure, never a
\* success.
C15_MissingPathFails ==
    (/\ Served
     /\ last.tool \in {"read_file", "analyze_file", "scan_directory"}
     /\ HasStr(last, "path")
     /\ ~PathExists(last, before) \/ last.env = "EACCES")
    => last.result.isError

\* scan_directory served on a directory that does not exist answers with a
\* success that lists nothing
C15_Witness ==
    /\ last.tool = "scan_directory"
    /\ HasStr(last, "path")
    /\ last.args["path"].s = "/missing"
    /\ ~last.result.isError
    /\ last.result.text.data = << << >>, << >> >>
    /\ last.result.text.nums[2] = 0

\* C16: a call whose context is cancelled while its handler runs returns a
\* failure, and the handler starts no operation after the one that was
\* under way when the context was cancelled.
C16_CancelStopsHandler ==
    ctx.cancelled =>
        /\ last.result.isError
        /\ ctx.started <= ctx.at + 1

\* a port scan of two ports is cancelled during the first dial: the second
\* port is dialled all the same and the scan is reported as a success
C16_Witness ==
    /\ ctx.cancelled
    /\ last.tool = "network_monitor"
    /\ last.args["action"].s = "port_scan"
    /\ ctx.at = 0
    /\ ctx.started = 2
    /\ ~last.result.isError

IsSelect(query) == query \in {"SELECT 1"}

\* the handler of call c handed the statement to the database
QuerySent(c) ==
    /\ ReachesOutside(c)
    /\ c.env \notin {"unknown driver", "ping failed", "ping canceled"}

\* C18: a database_query call whose query is not a SELECT statement
\* returns a failure and its statement is not handed to the database.
C18_OnlySelectRuns ==
    (/\ last.tool = "database_query"
     /\ HasStr(last, "query")
     /\ ~IsSelect(last.args["query"].s))
    => /\ last.result.isError
       /\ ~QuerySent(last)

\* a DELETE statement was handed to the database and answered with a
\* success
C18_Witness ==
    /\ last.tool = "database_query"
    /\ HasStr(last, "query")
    /\ last.args["query"].s = "DELETE FROM t"
    /\ QuerySent(last)
    /\ ~last.result.isError
    /\ last.result.text.strs[1] = "DELETE FROM t"

\* C19: a database_query call that carries query_type and query, and no
\* connection_string or driver, passes the parameter checks: it is not
\* answered with a failure about a missing parameter.
C19_QueryAloneSuffices ==
    (/\ last.tool = "database_query"
     /\ HasStr(last, "query")
     /\ HasStr(last, "query_type")
     /\ DOMAIN last.args = {"query", "query_type"})
    => ~(/\ last.result.isError
         /\ last.result.text.fmt = "required argument %q not found")

\* the documented call is answered with: required argument
\* "connection_string" not found
C19_Witness ==
    /\ last.tool = "database_query"
    /\ DOMAIN last.args = {"query", "query_type"}
    /\ last.args["query"].s = "SELECT 1"
    /\ last.result.isError
    /\ last.result.text.fmt = "required argument %q not found"
    /\ last.result.text.strs = <<"connection_string">>

\* C20: for every web_search call that reaches the search engine, the count
\* the search URL asks for and the number of results the answer lists are
\* at most 20, and a call without limit asks for 10.
C20_LimitCapped ==
    (last.tool = "web_search" /\ ReachesOutside(last))
    => LET limit == TruncToInt(GetFloat(last.args, "limit", 100))
           url == searchURL(GetString(last.args, "engine", "google"),
                            last.args["query"].s, limit)
       IN  /\ \A i \in DOMAIN url.count : url.count[i] <= 20
           /\ "limit" \notin DOMAIN last.args
                 => \A i \in DOMAIN url.count : url.count[i] = 10
           /\ (last.env = "array" /\ ~last.result.isError)
                 => last.result.text.nums[1] <= 20

\* web_search served with limit = 25 lists 25 results
C20_Witness ==
    /\ last.tool = "web_search"
    /\ "limit" \in DOMAIN last.args
    /\ last.args["limit"].n = 250
    /\ last.env = "array"
    /\ ~last.result.isError
    /\ last.result.text.nums = <<25>>

\* a scan_directory call that returned a report
Scanned == last.tool = "scan_directory" /\ ~last.result.isError

\* the entries the report lists, files and directories
Listed ==
    Range(last.result.text.data[1]) \cup Range(last.result.text.data[2])

\* C24: a scan with recursive = false lists no entry below a subdirectory
\* of the scanned path; a scan of the tree with recursive = true, no filter
\* and a depth limit of at least 1 lists entries below a subdirectory.
C24_RecursiveHonoured ==
    Scanned =>
        /\ ~GetBool(last.args, "recursive", TRUE)
              => \A e \in Listed : Len(e.rel) <= 1
        /\ (/\ GetBool(last.args, "recursive", TRUE)
            /\ last.args["path"].s = "/data"
            /\ "filter" \notin DOMAIN last.args
            /\ TruncToInt(GetFloat(last.args, "max_depth", 50)) >= 1)
              => \E e \in Listed : Len(e.rel) >= 2

\* a scan with recursive = false lists a/b/c.txt, three levels down
C24_Witness ==
    /\ Scanned
    /\ "recursive" \in DOMAIN last.args
    /\ ~GetBool(last.args, "recursive", TRUE)
    /\ \E e \in Listed : e.rel = <<"a", "b", "c.txt">>

\* C25: a scan lists no entry lying more than max_depth levels below the
\* scanned path, the direct children of the path being at level 1.
C25_DepthLimit ==
    (Scanned /\ TruncToInt(GetFloat(last.args, "max_depth", 50)) >= 0)
    => \A e \in Listed :
          Len(e.rel) <= TruncToInt(GetFloat(last.args, "max_depth", 50))

\* a scan with max_depth = 1 lists the directory a/b, at level 2
C25_Witness ==
    /\ Scanned
    /\ "max_depth" \in DOMAIN last.args
    /\ last.args["max_depth"].n = 10
    /\ last.result.text.nums[1] = 1
    /\ \E e \in Listed : e.rel = <<"a", "b">>
    /\ \A e \in Listed : Len(e.rel) <= 2

\* the text is well formed in the format
WellFormed(format, text) ==
    CASE format = "json" -> text = "[1,2]"
      [] format = "csv" -> text = "a,b\n1,2"
      [] format = "xml" -> text = "<a/>"
      [] OTHER -> FALSE

\* the value the well-formed text denotes
Denotes(format, text) ==
    CASE format = "json" -> <<1, 2>>
      [] format = "csv" -> << [a |-> "1", b |-> "2"] >>
      [] OTHER -> << >>

\* C26: a process_data call whose format is json, csv or xml, whose data is
\* well formed in that format and whose operation is one of the declared
\* ones returns a success, and for filter, transform and aggregate the
\* success carries the parsed data unchanged.
C26_EveryFormatHandled ==
    (/\ last.tool = "process_data"
     /\ HasStr(last, "data") /\ HasStr(last, "format")
     /\ HasStr(last, "operation")
     /\ "parameters" \notin DOMAIN last.args
     /\ last.args["format"].s \in {"json", "csv", "xml"}
     /\ WellFormed(last.args["format"].s, last.args["data"].s)
     /\ last.args["operation"].s
           \in {"analyze", "filter", "transform", "aggregate"})
    => /\ ~last.result.isError
       /\ last.args["operation"].s \in {"filter", "transform", "aggregate"}
             => last.result.text.data
                  = Denotes(last.args["format"].s, last.args["data"].s)

\* well-formed XML with format xml is answered with: unsupported data format
C26_Witness ==
    /\ last.tool = "process_data"
    /\ HasStr(last, "data") /\ last.args["data"].s = "<a/>"
    /\ HasStr(last, "format") /\ last.args["format"].s = "xml"
    /\ HasStr(last, "operation") /\ last.args["operation"].s = "filter"
    /\ "parameters" \notin DOMAIN last.args
    /\ last.result.isError
    /\ last.result.text.fmt = "unsupported data format"

\* the number of times entry e occurs in the list
Occurrences(list, e) == Cardinality({i \in DOMAIN list : list[i] = e})

RECURSIVE TotalSize(_)
TotalSize(list) ==
    IF list = << >> THEN 0 ELSE Head(list).size + TotalSize(Tail(list))

----------------------------------------------------------------------------
(* Properties of the intelligent assistant.                                *)

\* ProcessUserQuery has returned
Returned == ia.pc = "done"

\* the tool calls made, in the order they were made, and the LLM requests
\* callLLM sent
ToolLog == SelectSeq(ia.log, LAMBDA sent : sent.kind = "tool")

LLMLog == SelectSeq(ia.log, LAMBDA sent : sent.kind = "llm")

\* the formatted results of the tool calls made that returned a result
Collected ==
    LET results == SelectSeq(ToolLog, LAMBDA sent : sent.reply.err = "")
    IN  [i \in DOMAIN results |-> formatToolResult(results[i].reply)]

\* callLLM was called and returned an error
LLMFailed == Returned /\ LLMLog # << >> /\ LLMLog[Len(LLMLog)].reply.err # ""

\* C21: whenever callLLM returns an error, ProcessUserQuery still returns a
\* QueryResult and a nil error, and the FinalAnswer is the fallback answer:
\* generateDirectAnswer when no tool was selected, synthesizeAnswer over the
\* collected tool results otherwise.
C21_LLMFailureFallsBack ==
    LLMFailed =>
        /\ ia.returned = "result"
        /\ ia.err = ""
        /\ ia.FinalAnswer =
               IF ia.toolCalls = << >>
               THEN generateDirectAnswer(ia.query)
               ELSE synthesizeAnswer(ia.query, Collected)

\* callLLM fails after two tools returned their results
C21_Witness ==
    /\ LLMFailed
    /\ Len(ToolLog) = 2
    /\ ia.returned = "result"
    /\ ia.FinalAnswer = synthesizeAnswer(ia.query, Collected)

\* the analysis is over and has selected no tool
NoToolSelected == ia.pc # "idle" /\ ia.toolCalls = << >>

Rank(name) ==
    CASE name = "web_search" -> 1
      [] name = "database_query" -> 2
      [] name = "calculator" -> 3

\* C23: ProcessUserQuery goes from the analysis to the tool calls, then to
\* the LLM, then to the answer: the analysis comes first; the selected tools
\* are called one at a time in the order web_search, database_query,
\* calculator; callLLM is called last, once every selected tool call has
\* returned a result; and its prompt holds the formatted result of each tool
\* in the order of the calls.
C23_AnalysisToolsThenLLM ==
    /\ ia.pc # "idle" => ia.log[1].kind = "analysis"
    /\ \A i \in DOMAIN ia.log : i > 1 => ia.log[i].kind # "analysis"
    /\ \A i \in DOMAIN ToolLog :
          /\ ToolLog[i].name = ia.toolCalls[i].Name
          /\ ToolLog[i].args = ia.toolCalls[i].Args
          /\ \A j \in DOMAIN ToolLog :
                i < j => Rank(ToolLog[i].name) < Rank(ToolLog[j].name)
    /\ \A i \in DOMAIN ia.log :
          ia.log[i].kind = "llm" =>
              /\ i = Len(ia.log)
              /\ Returned
              /\ Len(ToolLog) = Len(ia.toolCalls)
              /\ \A j \in DOMAIN ToolLog : ToolLog[j].reply.err = ""
              /\ ia.log[i].prompt = Prompt(ia.query, Collected)
              /\ ia.RawResults = Collected
    /\ ia.FinalAnswer # << >> => LLMLog # << >>

\* all three tools were called in order and the LLM answered on their results
C23_Witness ==
    /\ Returned
    /\ Len(ia.log) = 5
    /\ [i \in DOMAIN ToolLog |-> ToolLog[i].name]
           = <<"web_search", "database_query", "calculator">>
    /\ Collected = <<<<"alpha", "\n">>,
                     <<"tool execution failed: ", "failed">>,
                     <<"beta", "\n", "gamma", "\n">>>>
    /\ ia.log[5].kind = "llm"
    /\ ia.FinalAnswer = <<"the answer">>

\* some tool call made ended on a transport error
TransportFailed ==
    \E i \in DOMAIN ToolLog : ToolLog[i].reply.err # ""

\* C28: if a tool call inside ProcessUserQuery returns a transport error,
\* ProcessUserQuery returns nil and an error at once: the failed call is the
\* last thing it does, so no later selected tool is called and callLLM is
\* not called, and the caller gets no QueryResult, hence none of the results
\* of the tools called before.
C28_TransportErrorAborts ==
    TransportFailed =>
        /\ Returned
        /\ ia.returned = Nil
        /\ ia.err # ""
        /\ ia.log[Len(ia.log)].kind = "tool"
        /\ ia.log[Len(ia.log)].reply.err # ""
        /\ \A i \in DOMAIN ToolLog :
              ToolLog[i].reply.err # "" => i = Len(ToolLog)
        /\ LLMLog = << >>
        /\ ia.FinalAnswer = << >>

\* the second of three selected tools fails in transport after the first
\* returned a result
C28_Witness ==
    /\ TransportFailed
    /\ Len(ia.toolCalls) = 3
    /\ Len(ToolLog) = 2
    /\ ToolLog[1].reply.err = ""
    /\ ia.returned = Nil
    /\ LLMLog = << >>

\* the semantic analysis ended on an error
AnalysisFailed == ia.pc # "idle" /\ ia.log[1].reply.err # ""

\* the names of the tools the analysis selected
SelectedNames == [i \in DOMAIN ia.toolCalls |-> ia.toolCalls[i].Name]

\* the keywords of the lower-cased query ask for the tool
KeywordAsksFor(name, query) ==
    \/ name = "web_search" /\ needsWebSearch(ToLower(query))
    \/ name = "database_query" /\ needsDatabase(ToLower(query))
    \/ name = "calculator" /\ needsCalculation(ToLower(query))

\* C29: analyzeQueryForTools always yields a tool list and never an error:
\* ProcessUserQuery goes on to the tools or to the LLM after it; and whenever
\* the semantic analysis fails (request error, timeout, non-200 status,
\* unreadable body, no JSON object in the reply, unparsable JSON) the tools
\* are those of the keyword matching, which are decided by the query text
\* alone.
C29_FallbackOnAnalysisFailure ==
    /\ Len(ia.log) = 1 =>
          /\ ia.pc = IF ia.toolCalls = << >> THEN "llm" ELSE "tools"
          /\ ia.err = ""
    /\ AnalysisFailed =>
          /\ ia.toolCalls = analyzeQueryForToolsFallback(ia.query)
          /\ \A name \in {"web_search", "database_query", "calculator"} :
                (\E i \in DOMAIN SelectedNames : SelectedNames[i] = name)
                    <=> KeywordAsksFor(name, ia.query)

\* the reply to the analysis holds no JSON object, and the keyword count,
\* found after lower-casing, selects the database query
C29_Witness ==
    /\ AnalysisFailed
    /\ ia.log[1].reply.err = "cannot extract JSON"
    /\ ia.query = <<"COUNT">>
    /\ ia.toolCalls =
           <<ToolCall("database_query",
                      [query_type |-> <<"structured">>,
                       query |-> <<"select">>,
                       table_name |-> <<"users">>, limit |-> <<"5">>])>>

----------------------------------------------------------------------------
(* Properties of the feishu client.                                        *)

\* the last call of the client ended because no token could be fetched
TokenRequestFailed ==
    feishu.last.err \in {"token request failed", "read token reply failed",
                         "parse token JSON failed", "get token failed",
                         "panic"}

\* the token kept when the last call began had expired by then
Stale ==
    \/ ~feishu.last.tokenBefore.set
    \/ feishu.last.at >= feishu.last.tokenBefore.ExpiresAt

\* C30: over any sequence of refreshToken and AppendTextToDoc calls, a
\* token request is sent only when no token is kept or the kept token has
\* reached its ExpiresAt, which is the time of the fetch plus expire minus
\* 60 seconds; otherwise the kept token is returned without a request; a
\* failed token request leaves the kept token unchanged; and AppendTextToDoc
\* sends no append request when no token was obtained.
C30_TokenCache ==
    feishu.last.op # "" =>
        /\ feishu.last.tokenRequested <=> Stale
        /\ ~feishu.last.tokenRequested =>
              /\ feishu.last.value = feishu.last.tokenBefore.Token
              /\ feishu.token = feishu.last.tokenBefore
              /\ ~TokenRequestFailed
        /\ (feishu.last.tokenRequested /\ ~TokenRequestFailed) =>
              /\ feishu.token.Token = feishu.last.value
              /\ feishu.token.ExpiresAt
                     = feishu.last.until + feishu.token.Expire - 60
        /\ TokenRequestFailed =>
              /\ feishu.token = feishu.last.tokenBefore
              /\ ~feishu.last.appendSent
        /\ feishu.last.appendSent =>
              /\ feishu.last.op = "AppendTextToDoc"
              /\ feishu.last.bearer = feishu.token.Token

\* the kept token has expired, the request for a new one is refused, and
\* AppendTextToDoc returns without an append request, the old token kept
C30_Witness ==
    /\ feishu.last.op = "AppendTextToDoc"
    /\ feishu.last.tokenBefore.set
    /\ feishu.last.at >= feishu.last.tokenBefore.ExpiresAt
    /\ feishu.last.tokenRequested
    /\ feishu.last.err = "get token failed"
    /\ ~feishu.last.appendSent
    /\ feishu.token = feishu.last.tokenBefore

====
